---- MODULE Spec2Model ----
(***************************************************************************)
(* Verification model of the reactive value graph ("Volatile"), the        *)
(* resource handle, the partially ordered set and the frame scheduler of   *)
(* the Renderer.                                                           *)
(*                                                                         *)
(* The module holds several specifications over one list of variables:     *)
(*   Spec           the ordering graph (both implementations)              *)
(*   SpecHandle     one ResourceHandle driven by attach/detach calls       *)
(*   SpecCells      a graph of root, derived and merged cells              *)
(*   SpecBurst, SpecWindow, SpecReady, SpecValues                          *)
(*                  the same cells with a history of the events recorded   *)
(*   SpecScheduler  cell registration and resolveComponentVolatiles        *)
(*   SpecSteps      render step registration and render()                  *)
(*   SpecTick       cell registration, the first layer and whole ticks     *)
(*   SpecHeard      the cells with the runs of readiness listeners kept    *)
(*   SpecAuxiliaries  the auxiliaries of roots and getAuxiliaries()        *)
(*   SpecPulse      the before-render pulse, a cell derived from it and    *)
(*                  the cell registry                                      *)
(*   SpecNest       MiniView steps nesting the renderer into itself        *)
(*   SpecTwin       two instances driven by the same calls                 *)
(*   SpecFresh      the cells with initialization and no dispose           *)
(*   SpecGuard      cell registration and passes in which a cell throws    *)
(* Each specification leaves the variables of the others unchanged.        *)
(***************************************************************************)
EXTENDS Integers, Sequences, FiniteSets, TLC

VARIABLES
  \* ---- ordering graph --------------------------------------------------
  variant,    \* which implementation: "PartiallyOrderedSet" or "Graph"
  nodes,      \* Map key -> node record [upstream, downstream]
  roots,      \* Set of keys, in insertion order
  last,       \* the last call, what it returned and the edges it removed
  accepted,   \* pairs <<a, b>> whose order(a, b) returned true, both still present
  \* ---- resource handle -------------------------------------------------
  counter,    \* ResourceHandle.counter
  calls,      \* the attach ("a") / detach ("d") calls made so far
  disposedAt, \* positions in calls at which the dispose callback ran
  \* ---- reactive cells --------------------------------------------------
  cells,      \* the record of all cell fields and subscription lists
  \* ---- frame scheduler -------------------------------------------------
  sched       \* the record of the renderer's scheduling state

posVars    == <<variant, nodes, roots, last, accepted>>
handleVars == <<counter, calls, disposedAt>>
cellVars   == <<cells>>
schedVars  == <<sched>>
vars       == <<variant, nodes, roots, last, accepted,
                counter, calls, disposedAt, cells, sched>>

(***************************************************************************)
(* Helpers on insertion-ordered sets (JavaScript Set), kept as sequences   *)
(* without duplicates.                                                     *)
(***************************************************************************)
Range(s) == {s[i] : i \in 1..Len(s)}

SetAdd(s, x) == IF x \in Range(s) THEN s ELSE Append(s, x)

SetDelete(s, x) == SelectSeq(s, LAMBDA y : y # x)

IndexOf(s, x) == CHOOSE i \in 1..Len(s) : s[i] = x

(***************************************************************************)
(* ORDERING GRAPH                                                          *)
(***************************************************************************)
Keys == {"A", "B", "C"}

\* Depth of the call stack available to the recursive reachability check.
MaxStack == 5

NewNode == [upstream |-> <<>>, downstream |-> {}]

\* PartiallyOrderedSet.hasCycle: "true" / "false" as returned, "overflow" when
\* the recursion exhausts the stack (RangeError).
RECURSIVE hasCycle(_, _, _, _)
RECURSIVE hasCycleScan(_, _, _, _, _)
hasCycle(root, nd, nodesToVerify, depth) ==
  IF depth = 0 THEN "overflow"
  ELSE IF root \in Range(nodesToVerify) THEN "true"
  ELSE hasCycleScan(root, nd, nodesToVerify, 1, depth)

hasCycleScan(root, nd, nodesToVerify, i, depth) ==
  IF i > Len(nodesToVerify) THEN "false"
  ELSE LET r == hasCycle(root, nd, nd[nodesToVerify[i]].upstream, depth - 1)
       IN  IF r = "false"
           THEN hasCycleScan(root, nd, nodesToVerify, i + 1, depth)
           ELSE r

\* Graph.hasCycle of the key graph: the same walk with the result inverted
\* ("false" means a cycle was found).
RECURSIVE GraphHasCycle(_, _, _, _)
RECURSIVE GraphHasCycleScan(_, _, _, _, _)
GraphHasCycle(root, nd, nodesToVerify, depth) ==
  IF depth = 0 THEN "overflow"
  ELSE IF root \in Range(nodesToVerify) THEN "false"
  ELSE GraphHasCycleScan(root, nd, nodesToVerify, 1, depth)

GraphHasCycleScan(root, nd, nodesToVerify, i, depth) ==
  IF i > Len(nodesToVerify) THEN "true"
  ELSE LET r == GraphHasCycle(root, nd, nd[nodesToVerify[i]].upstream, depth - 1)
       IN  IF r = "true"
           THEN GraphHasCycleScan(root, nd, nodesToVerify, i + 1, depth)
           ELSE r

\* An insertion that records the edge at a only.
InsertEdgeAtLowerOnly(nd, a, b) ==
  [nd EXCEPT ![a].upstream = SetAdd(@, b)]

\* The two assignments and the roots update shared by order and addEdge.
InsertEdge(nd, a, b) ==
  [nd EXCEPT ![a].upstream = SetAdd(@, b), ![b].downstream = @ \cup {a}]

\* An order that tests b alone for membership and creates the node of a.
orderCreatingLower(nd, rt, a, b) ==
  IF b \notin DOMAIN nd
  THEN [nodes |-> nd, roots |-> rt, result |-> "false"]
  ELSE LET c == hasCycle(a, nd, nd[b].upstream, MaxStack)
           withA == IF a \in DOMAIN nd THEN nd
                    ELSE [k \in DOMAIN nd \cup {a} |->
                            IF k = a THEN NewNode ELSE nd[k]]
       IN  IF c = "true" THEN [nodes |-> nd, roots |-> rt, result |-> "false"]
           ELSE IF c = "overflow"
           THEN [nodes |-> nd, roots |-> rt, result |-> "throw"]
           ELSE [nodes |-> InsertEdge(withA, a, b),
                 roots |-> SetDelete(rt, b),
                 result |-> "true"]

\* PartiallyOrderedSet.order(a, b): [nodes, roots, result].
order(nd, rt, a, b) ==
  IF a \notin DOMAIN nd \/ b \notin DOMAIN nd
  THEN [nodes |-> nd, roots |-> rt, result |-> "false"]
  ELSE LET c == hasCycle(a, nd, nd[b].upstream, MaxStack)
       IN  IF c = "true" THEN [nodes |-> nd, roots |-> rt, result |-> "false"]
           ELSE IF c = "overflow"
           THEN [nodes |-> nd, roots |-> rt, result |-> "throw"]
           ELSE [nodes |-> InsertEdge(nd, a, b),
                 roots |-> SetDelete(rt, b),
                 result |-> "true"]

\* Graph.addEdge(a, b): [nodes, roots, result].
addEdge(nd, rt, a, b) ==
  IF b \notin DOMAIN nd
  THEN [nodes |-> nd, roots |-> rt, result |-> "throw"]
  ELSE LET c == GraphHasCycle(a, nd, nd[b].upstream, MaxStack)
           withA == IF a \in DOMAIN nd THEN nd
                    ELSE [k \in DOMAIN nd \cup {a} |->
                            IF k = a THEN NewNode ELSE nd[k]]
       IN  IF c = "false" THEN [nodes |-> nd, roots |-> rt, result |-> "false"]
           ELSE IF c = "overflow"
           THEN [nodes |-> nd, roots |-> rt, result |-> "throw"]
           ELSE [nodes |-> InsertEdge(withA, a, b),
                 roots |-> SetDelete(rt, b),
                 result |-> "true"]

\* The edges <<x, y>> (x precedes y) the node of element takes part in.
IncidentEdges(nd, element) ==
  {<<d, element>> : d \in nd[element].downstream}
    \cup {<<element, u>> : u \in Range(nd[element].upstream)}

\* delete that leaves element in the predecessor sets of its successors.
removeNodeKeepingDownstream(nd, element) ==
  [k \in DOMAIN nd \ {element} |->
     [upstream   |-> SetDelete(nd[k].upstream, element),
      downstream |-> nd[k].downstream]]

\* PartiallyOrderedSet.delete / Graph.removeNode on a present key.
removeNode(nd, element) ==
  [k \in DOMAIN nd \ {element} |->
     [upstream   |-> SetDelete(nd[k].upstream, element),
      downstream |-> nd[k].downstream \ {element}]]

\* The body of the for loop of the iterator over element's upstream keys:
\* st = [roots: intermediateRoots, counters: downstreamCounters].
RECURSIVE iteratorVisit(_, _, _, _)
iteratorVisit(nd, st, ups, i) ==
  IF i > Len(ups) THEN st
  ELSE LET upstreamKey == ups[i]
           before == IF upstreamKey \in DOMAIN st.counters
                     THEN st.counters[upstreamKey]
                     ELSE Cardinality(nd[upstreamKey].downstream)
           referenceCount == before - 1
           st2 == [roots    |-> IF referenceCount = 0
                                THEN SetAdd(st.roots, upstreamKey)
                                ELSE st.roots,
                   counters |-> [k \in DOMAIN st.counters \cup {upstreamKey} |->
                                   IF k = upstreamKey THEN referenceCount
                                   ELSE st.counters[k]]]
       IN  iteratorVisit(nd, st2, ups, i + 1)

\* PartiallyOrderedSet.iterator / Graph.iterator: the sequence of yielded keys.
RECURSIVE iterator(_, _, _)
iterator(nd, st, out) ==
  IF st.roots = <<>> THEN out
  ELSE LET element == Head(st.roots)
           st2 == iteratorVisit(nd, st, nd[element].upstream, 1)
       IN  iterator(nd,
                    [st2 EXCEPT !.roots = SetDelete(@, element)],
                    Append(out, element))

\* [...set.sortedValues()] on a graph with the given nodes and roots.
sortedValues(nd, rt) ==
  iterator(nd, [roots |-> rt, counters |-> <<>>], <<>>)

Sorted == sortedValues(nodes, roots)

\* ---- actions -----------------------------------------------------------
\* add(element) / addKey(key)
Add(k) ==
  /\ IF k \in DOMAIN nodes
     THEN UNCHANGED <<nodes, roots>>
     ELSE /\ nodes' = [x \in DOMAIN nodes \cup {k} |->
                         IF x = k THEN NewNode ELSE nodes[x]]
          /\ roots' = Append(roots, k)
  /\ last' = [op |-> "add", a |-> k, b |-> k, cut |-> {},
              result |-> IF k \in DOMAIN nodes THEN "false" ELSE "true"]
  /\ UNCHANGED <<variant, accepted>>

\* delete(element) / removeKey(key)
Delete(k) ==
  /\ IF k \in DOMAIN nodes
     THEN /\ nodes' = removeNode(nodes, k)
          /\ roots' = SetDelete(roots, k)
     ELSE UNCHANGED <<nodes, roots>>
  /\ last' = [op |-> "delete", a |-> k, b |-> k,
              cut |-> IF k \in DOMAIN nodes THEN IncidentEdges(nodes, k) ELSE {},
              result |-> IF k \in DOMAIN nodes THEN "true" ELSE "false"]
  /\ accepted' = {p \in accepted : p[1] # k /\ p[2] # k}
  /\ UNCHANGED variant

\* order(a, b)
Order(a, b) ==
  LET r == IF variant = "Graph" THEN addEdge(nodes, roots, a, b)
           ELSE order(nodes, roots, a, b)
  IN  /\ nodes' = r.nodes
      /\ roots' = r.roots
      /\ last' = [op |-> "order", a |-> a, b |-> b, cut |-> {},
                  result |-> r.result]
      /\ accepted' = IF r.result = "true" THEN accepted \cup {<<a, b>>}
                     ELSE accepted
      /\ UNCHANGED variant

PosInit ==
  /\ variant \in {"PartiallyOrderedSet", "Graph"}
  /\ nodes = <<>>
  /\ roots = <<>>
  /\ last = [op |-> "new", a |-> "A", b |-> "A", cut |-> {}, result |-> "true"]
  /\ accepted = {}

PosFrame == UNCHANGED <<handleVars, cellVars, schedVars>>

PosNext ==
  \/ \E k \in Keys : Add(k) /\ PosFrame
  \/ \E k \in Keys : Delete(k) /\ PosFrame
  \/ \E a \in Keys, b \in Keys : Order(a, b) /\ PosFrame

(***************************************************************************)
(* Properties of the ordering graph                                        *)
(***************************************************************************)
Succ(nd, S) == UNION {Range(nd[k].upstream) : k \in S \cap DOMAIN nd}

RECURSIVE ReachFrom(_, _)
ReachFrom(nd, S) ==
  LET T == S \cup Succ(nd, S) IN IF T = S THEN S ELSE ReachFrom(nd, T)

\* y is reachable from x through one or more "precedes" edges.
Precedes(nd, x, y) == y \in ReachFrom(nd, Succ(nd, {x}))

\* C1: an order(a, b) call on present keys made while b already
\* (transitively) precedes a returns false and leaves the nodes, both edge
\* sets, the roots and the sortedValues() sequence as they were.
C1_CycleRejectionAtomic ==
  [][(/\ last'.op = "order"
      /\ last'.a \in DOMAIN nodes
      /\ last'.b \in DOMAIN nodes
      /\ Precedes(nodes, last'.b, last'.a))
     => (/\ last'.result = "false"
         /\ nodes' = nodes
         /\ roots' = roots
         /\ Sorted' = Sorted)]_vars

\* The edges of the graph: <<x, y>> when y is in the successor set of x or x is
\* in the predecessor set of y.
Edges(nd) ==
  UNION {{<<x, y>> : y \in Range(nd[x].upstream)} \cup
         {<<d, x>> : d \in nd[x].downstream} : x \in DOMAIN nd}

\* C20: delete(k) on a present key returns true and removes k and exactly
\* the edges incident to k: no remaining node lists k as predecessor or
\* successor, no edge is added, and the successor and predecessor sets of the
\* remaining nodes are otherwise what they were; on an absent key it returns
\* false and changes neither the nodes, the roots nor the enumeration.
C20_DeleteRemovesIncidentEdges ==
  [][last'.op = "delete" =>
       LET k == last'.a
       IN  IF k \in DOMAIN nodes
           THEN /\ last'.result = "true"
                /\ DOMAIN nodes' = DOMAIN nodes \ {k}
                /\ k \notin Range(roots')
                /\ \A x \in DOMAIN nodes' :
                     /\ Range(nodes'[x].upstream) = Range(nodes[x].upstream) \ {k}
                     /\ nodes'[x].downstream = nodes[x].downstream \ {k}
                /\ Edges(nodes') = {e \in Edges(nodes) : e[1] # k /\ e[2] # k}
           ELSE /\ last'.result = "false"
                /\ nodes' = nodes
                /\ roots' = roots
                /\ Sorted' = Sorted]_vars

\* A key with a predecessor x and a successor y that are not ordered directly
\* has just been deleted.
C20_Witness ==
  /\ last.op = "delete"
  /\ \E x \in DOMAIN nodes, y \in DOMAIN nodes :
       /\ x # y
       /\ <<x, last.a>> \in last.cut
       /\ <<last.a, y>> \in last.cut
       /\ <<x, y>> \notin Edges(nodes)

\* C2: the graph of accepted "a before b" edges is acyclic: no key is
\* reachable from itself through one or more edges.
C2_Acyclic == \A k \in DOMAIN nodes : ~Precedes(nodes, k, k)

\* C3: for every order(a, b) that returned true, while neither a nor b has
\* been removed, a full sortedValues() enumeration yields a strictly before b.
C3_TopologicalValidity ==
  \A p \in accepted :
    /\ p[1] \in Range(Sorted)
    /\ p[2] \in Range(Sorted)
    /\ IndexOf(Sorted, p[1]) < IndexOf(Sorted, p[2])

\* C4: a full sortedValues() enumeration yields every key currently present
\* in the graph exactly once.
C4_EnumeratesEveryKey ==
  /\ Range(Sorted) = DOMAIN nodes
  /\ Len(Sorted) = Cardinality(DOMAIN nodes)


\* C28: order(a, b) on two distinct present keys such that a is not
\* reachable from b returns true and the edge a-before-b is present
\* afterwards; when the edge was already there the call leaves the nodes and
\* the roots as they were.
C28_LegalOrderAccepted ==
  [][(/\ last'.op = "order"
      /\ last'.a # last'.b
      /\ last'.a \in DOMAIN nodes
      /\ last'.b \in DOMAIN nodes
      /\ ~Precedes(nodes, last'.b, last'.a))
     => /\ last'.result = "true"
        /\ <<last'.a, last'.b>> \in Edges(nodes')
        /\ <<last'.a, last'.b>> \in Edges(nodes) => (nodes' = nodes /\ roots' = roots)]_vars

\* C30: the successor and predecessor sets mirror each other and every key an
\* edge set refers to is a node: b is in a's successor set exactly when a is
\* in b's predecessor set.
C30_MirrorEdgeSets ==
  \A a \in DOMAIN nodes :
    /\ Range(nodes[a].upstream) \subseteq DOMAIN nodes
    /\ nodes[a].downstream \subseteq DOMAIN nodes
    /\ \A b \in DOMAIN nodes :
         b \in Range(nodes[a].upstream) <=> a \in nodes[b].downstream

\* An edge between two keys is left after a delete removed a third key that
\* was ordered against one of them.
C30_Witness ==
  /\ last.op = "delete"
  /\ last.cut # {}
  /\ \E e \in Edges(nodes) : e[1] # e[2]

\* C38: in every reachable graph state a call order(a, b) on present keys
\* returns (true or false); the reachability check never recurses without
\* end.
C38_OrderTerminates ==
  [][(/\ last'.op = "order"
      /\ last'.a \in DOMAIN nodes
      /\ last'.b \in DOMAIN nodes)
     => last'.result \in {"true", "false"}]_vars

(***************************************************************************)
(* Idle values of the other components                                     *)
(***************************************************************************)
HandleIdle == counter = 0 /\ calls = <<>> /\ disposedAt = <<>>
CellsIdle  == cells = <<>>
SchedIdle  == sched = <<>>
PosIdle ==
  /\ variant = "PartiallyOrderedSet" /\ nodes = <<>> /\ roots = <<>>
  /\ last = [op |-> "new", a |-> "A", b |-> "A", cut |-> {}, result |-> "true"]
  /\ accepted = {}

(***************************************************************************)
(* RESOURCE HANDLE                                                         *)
(***************************************************************************)
\* Number of attach/detach calls made on the handle in one behaviour.
MaxCalls == 6

\* ResourceHandle.attach: the counter afterwards.
attach(c) == c + 1

\* A detach that runs the dispose callback on every call.
detachAlwaysDisposing(c) == [counter |-> c - 1, dispose |-> TRUE]

\* ResourceHandle.detach: the counter afterwards and whether dispose() ran.
detach(c) == [counter |-> c - 1, dispose |-> (c - 1 = 0)]

Attach ==
  /\ Len(calls) < MaxCalls
  /\ counter' = attach(counter)
  /\ calls' = Append(calls, "a")
  /\ UNCHANGED disposedAt

Detach ==
  /\ Len(calls) < MaxCalls
  /\ LET r == detach(counter)
     IN  /\ counter' = r.counter
         /\ disposedAt' = IF r.dispose
                          THEN Append(disposedAt, Len(calls) + 1)
                          ELSE disposedAt
  /\ calls' = Append(calls, "d")

HandleInit == HandleIdle

HandleFrame == UNCHANGED <<posVars, cellVars, schedVars>>

HandleNext ==
  \/ Attach /\ HandleFrame
  \/ Detach /\ HandleFrame

SpecHandleInit == PosIdle /\ HandleInit /\ CellsIdle /\ SchedIdle

SpecHandle == SpecHandleInit /\ [][HandleNext]_vars

\* ---- properties --------------------------------------------------------
CountOf(kind, n) == Cardinality({i \in 1..n : calls[i] = kind})

Attaches == CountOf("a", Len(calls))
Detaches == CountOf("d", Len(calls))

\* attach() and detach() have each been called N >= 1 times.
Balanced == Attaches = Detaches /\ Attaches >= 1

\* The position in calls of the Nth (last) detach.
LastDetach == CHOOSE i \in 1..Len(calls) :
                calls[i] = "d" /\ \A j \in (i + 1)..Len(calls) : calls[j] = "a"

\* Some detach before the last call brought the count of attaches minus
\* detaches back to zero.
ZeroBeforeLast ==
  \E i \in 1..(Len(calls) - 1) :
    calls[i] = "d" /\ CountOf("a", i) = CountOf("d", i)

\* C6 as stated: after N attach and N detach calls in any interleaving, the
\* dispose callback ran exactly once, during the Nth detach.
C6_SingleDisposeAnyInterleaving ==
  Balanced => disposedAt = <<LastDetach>>

\* C6 amended: after N attach and N detach calls of which the last call is a
\* detach and no earlier detach brought the reference count back to zero, the
\* dispose callback ran exactly once, during the Nth detach.
C6_SingleDispose ==
  (Balanced /\ calls[Len(calls)] = "d" /\ ~ZeroBeforeLast)
    => disposedAt = <<LastDetach>>

\* Two attaches, two detaches, the count positive until the last call, and
\* the dispose callback has run.
C6_Witness ==
  /\ Balanced /\ Attaches >= 2
  /\ calls[Len(calls)] = "d" /\ ~ZeroBeforeLast
  /\ Len(disposedAt) = 1

\* C14: a detach() made when the handle has been detached as many times as
\* it has been attached is an error for the caller and leaves the count
\* alone, so the reference count is never negative.
C14_CountNeverNegative == counter >= 0

(***************************************************************************)
(* REACTIVE CELLS                                                          *)
(*                                                                         *)
(* A fixed graph of cells: two roots, a chain of two derived cells over    *)
(* the first root, and a merged cell over the first root, the cell derived *)
(* from it, and the second root.                                           *)
(*                                                                         *)
(*      R1 ---> D1 ---> E                                                  *)
(*       |       |                                                         *)
(*       +-------+---> M <--- R2                                           *)
(*                                                                         *)
(* Values are sequences of integers: <<>> is UNDEFINED_VALUE, <<v>> a      *)
(* value given to a root, and the compute functions tag their argument.    *)
(*                                                                         *)
(* The fields watch, record, burst, received, pending, computes and events *)
(* of the state are a record of what happened to one watched cell; the     *)
(* code does not read them.                                                *)
(***************************************************************************)
RootCells    == {"R1", "R2"}
DerivedCells == {"D1", "E"}
MergedCells  == {"M"}
BaseCells    == DerivedCells \cup MergedCells
Cells        == RootCells \cup BaseCells

\* DerivatedVolatileBase.sources
sources == [c \in BaseCells |->
              CASE c = "D1" -> <<"R1">>
                [] c = "E"  -> <<"D1">>
                [] c = "M"  -> <<"R1", "D1", "R2">>]

UNDEFINED_VALUE == <<>>

\* The values a caller gives to RootVolatile.set.
RootValues == {<<1>>, <<2>>}

\* The compute function bound to a derived cell: a pure function of the
\* source's value.
compute(d, v) == <<0>> \o v

\* Resource handles that can be given to a root as its value: the value <<h>>
\* is the handle h itself, resource(<<h>>) the resource it wraps.
Handles == {101, 102}

\* Recorded number of runs of a handle's dispose callback (the runs beyond it
\* are made but not recorded).
MaxDisposals == 2

isResourceHandle(v) == Len(v) = 1 /\ v[1] \in Handles

resource(v) == <<v[1] - 50>>

\* Storing a handle without attaching to it.
attachValueUncounted(st, v) == st

\* value.attach() on the handle stored as a cell's value
attachValue(st, v) == [st EXCEPT !.counter[v[1]] = attach(@)]

\* A detach that never runs the dispose callback.
detachValueNeverDisposing(st, v) ==
  [st EXCEPT !.counter[v[1]] = detach(@).counter]

\* value.detach() on the handle stored as a cell's value
detachValue(st, v) ==
  LET r == detach(st.counter[v[1]])
  IN  [st EXCEPT !.counter[v[1]] = r.counter,
                 !.disposed[v[1]] = IF r.dispose /\ @ < MaxDisposals THEN @ + 1 ELSE @]

\* The compute function a caller bound to the derived cells: one that builds
\* a plain value from its argument ("tag"), or one that returns its argument
\* as it is ("pass").
computeOf(st, d, v) == IF st.kind = "pass" THEN v ELSE compute(d, v)

\* Recorded length of a burst of invalidation events (the events beyond it
\* are delivered but not recorded).
MaxBurst == 2

Bump(n) == IF n < MaxBurst THEN n + 1 ELSE n

\* Record of an invalidation event received by d, forwarded or not. The
\* record of the last window is kept until the next window's first event.
noteEvent(st, d, forwarded) ==
  IF st.watch # d THEN st
  ELSE IF st.record = "burst"
  THEN [st EXCEPT !.burst = IF Len(@) < MaxBurst THEN Append(@, forwarded) ELSE @]
  ELSE IF st.record = "window"
  THEN [st EXCEPT !.received = Bump(@), !.computes = 0, !.events = 0]
  ELSE st

\* Record of the start of a new burst of d (initialization, recomputation).
noteBurstStart(st, d) ==
  IF st.watch = d /\ st.record = "burst" THEN [st EXCEPT !.burst = <<>>] ELSE st

\* Record of a compute invocation made in the course of the operation.
noteCompute(st, d) ==
  IF st.record = "values" THEN [st EXCEPT !.computes = Bump(@)] ELSE st

\* Record of a compute invocation of d made outside current().
noteEagerCompute(st, d) ==
  IF st.watch = d /\ st.record = "window" THEN [st EXCEPT !.pending = Bump(@)] ELSE st

\* Record of the window that ends when a current() call on d returns: the
\* compute invocations since the previous call returned (computes) and the
\* invalidation events received in it (events).
closeWindow(st, d, recomputed) ==
  IF st.watch = d /\ st.record = "window"
  THEN [st EXCEPT !.computes = IF recomputed THEN st.pending + 1 ELSE st.pending,
                  !.events   = st.received,
                  !.pending  = 0,
                  !.received = 0]
  ELSE st

\* Volatile.ready(): RootVolatile.ready / DerivatedVolatileBase.ready
ready(st, c) ==
  IF c \in RootCells THEN st.value[c] # UNDEFINED_VALUE ELSE st.readySet[c]

\* Record of a readiness event of c about to be delivered to its subscribers:
\* the first event that carries the readiness c already had is kept.
noteReadyEvent(st, c, previousReady) ==
  IF st.record = "ready" /\ st.readySubs[c] # <<>>
  THEN [st EXCEPT !.transitions = Bump(@),
                  !.stay = IF @ = <<>> /\ ready(st, c) = previousReady
                           THEN <<[cell |-> c, ready |-> previousReady]>>
                           ELSE @]
  ELSE st

\* Record of one run of d's readiness listener: the readiness the event
\* carried, d's ready() before (old) and after (new), whether d emitted its
\* own event, and whether every source of d was ready when the event came.
noteHeard(new, old, d, isReady, emitted) ==
  IF new.record = "heard"
  THEN [new EXCEPT !.heard = Append(@,
          [cell |-> d, ready |-> isReady,
           before |-> old.readySet[d], after |-> new.readySet[d],
           emitted |-> emitted,
           allReady |-> \A i \in DOMAIN sources[d] : ready(old, sources[d][i])])]
  ELSE new

\* A readiness that one ready source is enough for.
computeReadyFromAnySource(st, d) ==
  /\ Len(sources[d]) # 0
  /\ \E i \in 1..Len(sources[d]) : ready(st, sources[d][i])

\* computeReadyFromSources of DerivatedVolatileBase.initialize
computeReadyFromSources(st, d) ==
  /\ Len(sources[d]) # 0
  /\ \A i \in 1..Len(sources[d]) : ready(st, sources[d][i])

\* A readiness computed from the first source alone.
RECURSIVE signalReadyStateChange(_, _)
RECURSIVE readyListeners(_, _, _, _)
RECURSIVE readyStateListener(_, _, _)
readyStateListenerFirstSourceOnly(st, d, isReady) ==
  IF st.readySet[d] /\ ~isReady
  THEN signalReadyStateChange([st EXCEPT !.readySet[d] = FALSE], d)
  ELSE IF ~st.readySet[d] /\ isReady
  THEN LET st2 == [st EXCEPT !.readySet[d] = ready(st, sources[d][1])]
       IN  IF st2.readySet[d] THEN signalReadyStateChange(st2, d) ELSE st2
  ELSE st

\* Volatile.signalReadyStateChange: the store's listeners are called in
\* subscription order with the cell's readiness; each listener is the
\* callback DerivatedVolatileBase.initialize subscribed.
signalReadyStateChange(st, c) ==
  readyListeners(st, st.readySubs[c], ready(st, c), 1)

readyListeners(st, subs, isReady, i) ==
  IF i > Len(subs) THEN st
  ELSE readyListeners(readyStateListener(st, subs[i], isReady), subs, isReady, i + 1)

readyStateListener(st, d, isReady) ==
  IF st.readySet[d] /\ ~isReady
  THEN LET st2 == [st EXCEPT !.readySet[d] = FALSE]
       IN  signalReadyStateChange(
             noteHeard(noteReadyEvent(st2, d, TRUE), st, d, isReady, TRUE), d)
  ELSE IF ~st.readySet[d] /\ isReady
  THEN LET st2 == [st EXCEPT !.readySet[d] = computeReadyFromSources(st, d)]
       IN  IF st2.readySet[d]
           THEN signalReadyStateChange(
                  noteHeard(noteReadyEvent(st2, d, FALSE), st, d, isReady, TRUE), d)
           ELSE noteHeard(st2, st, d, isReady, FALSE)
  ELSE noteHeard(st, st, d, isReady, FALSE)

\* An invalidation listener that marks the cell and forwards nothing.
invalidationListenerNotForwarding(st, d) ==
  [st EXCEPT !.invalidated[d] = TRUE]

\* An invalidation listener that also recomputes the value at once.
RECURSIVE signalInvalidation(_, _)
RECURSIVE invalidationListeners(_, _, _)
RECURSIVE invalidationListener(_, _)
invalidationListenerEager(st, d) ==
  LET previousInvalidated == st.invalidated[d]
      st2 == noteEagerCompute(
               noteEvent([st EXCEPT !.invalidated[d] = TRUE], d, ~previousInvalidated),
               d)
  IN  IF ~previousInvalidated THEN signalInvalidation(st2, d) ELSE st2

\* Volatile.signalInvalidation
signalInvalidation(st, c) == invalidationListeners(st, st.invSubs[c], 1)

invalidationListeners(st, subs, i) ==
  IF i > Len(subs) THEN st
  ELSE invalidationListeners(invalidationListener(st, subs[i]), subs, i + 1)

\* The callback DerivatedVolatileBase.initialize subscribes to each source's
\* invalidation signal.
invalidationListener(st, d) ==
  LET previousInvalidated == st.invalidated[d]
      st2 == noteEvent([st EXCEPT !.invalidated[d] = TRUE], d, ~previousInvalidated)
  IN  IF ~previousInvalidated THEN signalInvalidation(st2, d) ELSE st2

\* Record of an event sent by a root on one of its two channels during the
\* operation in progress.
noteSent(st, channel) ==
  IF st.record = "values" THEN [st EXCEPT !.sent[channel] = Bump(@)] ELSE st

\* A set that signals nothing when given the value the root already holds.
setSilentOnSameValue(st, r, value) ==
  LET previousReady == ready(st, r)
      st0 == IF isResourceHandle(st.value[r]) THEN detachValue(st, st.value[r]) ELSE st
      st1 == [st0 EXCEPT !.value[r] = value]
      st2 == IF isResourceHandle(value) THEN attachValue(st1, value) ELSE st1
      st3 == IF previousReady # ready(st2, r)
             THEN signalReadyStateChange(
                    noteSent(noteReadyEvent(st2, r, previousReady), "ready"), r)
             ELSE st2
  IN  IF value = st.value[r] THEN st3 ELSE signalInvalidation(noteSent(st3, "inv"), r)

\* RootVolatile.set(value); unset() is set(UNDEFINED_VALUE).
set(st, r, value) ==
  LET previousReady == ready(st, r)
      st0 == IF isResourceHandle(st.value[r]) THEN detachValue(st, st.value[r]) ELSE st
      st1 == [st0 EXCEPT !.value[r] = value]
      st2 == IF isResourceHandle(value) THEN attachValue(st1, value) ELSE st1
      st3 == IF previousReady # ready(st2, r)
             THEN signalReadyStateChange(
                    noteSent(noteReadyEvent(st2, r, previousReady), "ready"), r)
             ELSE st2
  IN  signalInvalidation(noteSent(st3, "inv"), r)

\* subscribe / unsubscribe of d on the stores of its sources
RECURSIVE subscribeAll(_, _, _)
subscribeAll(subs, d, i) ==
  IF i > Len(sources[d]) THEN subs
  ELSE subscribeAll([subs EXCEPT ![sources[d][i]] = Append(@, d)], d, i + 1)

unsubscribeAll(subs, d) == [c \in Cells |-> SetDelete(subs[c], d)]

\* DerivatedVolatileBase.ensureInitialized and initialize
RECURSIVE ensureInitialized(_, _)
RECURSIVE initializeSources(_, _, _)
RECURSIVE initialize(_, _)
ensureInitialized(st, d) ==
  IF st.initialized[d] THEN st
  ELSE [initialize(st, d) EXCEPT !.initialized[d] = TRUE]

initializeSources(st, d, i) ==
  IF i > Len(sources[d]) THEN st
  ELSE LET s == sources[d][i]
       IN  initializeSources(IF s \in BaseCells THEN ensureInitialized(st, s) ELSE st,
                             d, i + 1)

initialize(st, d) ==
  LET st1 == initializeSources(st, d, 1)
      st2 == [st1 EXCEPT !.readySet[d] = computeReadyFromSources(st1, d),
                         !.readySubs = subscribeAll(@, d, 1),
                         !.invalidated[d] = TRUE,
                         !.invSubs = subscribeAll(@, d, 1)]
  IN  signalReadyStateChange(
        noteReadyEvent(noteBurstStart(st2, d), d, st1.readySet[d]), d)

\* A dispose that forgets the handle without detaching from it.
disposeWithoutDetach(st, d) ==
  [st EXCEPT !.value[d] = IF d \in DerivedCells /\ isResourceHandle(@)
                          THEN UNDEFINED_VALUE ELSE @,
             !.invSubs = unsubscribeAll(@, d),
             !.readySubs = unsubscribeAll(@, d),
             !.initialized[d] = FALSE]

\* DerivatedVolatile.dispose (detaches from a handle value first) and
\* DerivatedVolatileBase.dispose
dispose(st, d) ==
  LET st1 == IF d \in DerivedCells /\ isResourceHandle(st.value[d])
             THEN [detachValue(st, st.value[d]) EXCEPT !.value[d] = UNDEFINED_VALUE]
             ELSE st
  IN  [st1 EXCEPT !.invSubs = unsubscribeAll(@, d),
                  !.readySubs = unsubscribeAll(@, d),
                  !.initialized[d] = FALSE]

\* isResourceHandle(this.value)? this.value.resource: this.value
unwrap(v) == IF isResourceHandle(v) THEN resource(v) ELSE v

RECURSIVE current(_, _)
RECURSIVE currentOfSources(_, _, _, _)
\* A derived cell that recomputes in every current() call made while it is
\* ready.
RECURSIVE currentAlwaysComputing(_, _)
currentAlwaysComputing(st, c) ==
  IF c \in RootCells THEN [st |-> st, value |-> st.value[c]]
  ELSE IF c \in DerivedCells
  THEN IF ready(st, c)
       THEN LET src == currentAlwaysComputing(st, sources[c][1])
                newValue == computeOf(src.st, c, src.value)
                st0 == IF isResourceHandle(src.st.value[c])
                       THEN detachValue(src.st, src.st.value[c]) ELSE src.st
                st1 == [st0 EXCEPT !.value[c] = newValue]
                st2 == [(IF isResourceHandle(newValue)
                         THEN attachValue(st1, newValue) ELSE st1)
                          EXCEPT !.invalidated[c] = FALSE]
            IN  [st |-> noteCompute(st2, c), value |-> unwrap(newValue)]
       ELSE [st |-> st, value |-> unwrap(st.value[c])]
  ELSE [st |-> st, value |-> st.value[c]]

\* current(): [st, value]. RootVolatile.current, DerivatedVolatile.current and
\* MergedVolatiles.current.
current(st, c) ==
  IF c \in RootCells THEN [st |-> st, value |-> st.value[c]]
  ELSE IF c \in DerivedCells
  THEN IF st.invalidated[c] /\ ready(st, c)
       THEN LET src == current(st, sources[c][1])
                newValue == computeOf(src.st, c, src.value)
                st0 == IF isResourceHandle(src.st.value[c])
                       THEN detachValue(src.st, src.st.value[c]) ELSE src.st
                st1 == [st0 EXCEPT !.value[c] = newValue]
                st2 == [(IF isResourceHandle(newValue)
                         THEN attachValue(st1, newValue) ELSE st1)
                          EXCEPT !.invalidated[c] = FALSE]
            IN  [st |-> closeWindow(noteBurstStart(noteCompute(st2, c), c), c, TRUE),
                 value |-> unwrap(newValue)]
       ELSE [st |-> closeWindow(st, c, FALSE), value |-> unwrap(st.value[c])]
  ELSE IF st.invalidated[c] /\ ready(st, c)
       THEN LET all == currentOfSources(st, c, 1, <<>>)
                st2 == [all.st EXCEPT !.value[c] = all.value,
                                      !.invalidated[c] = FALSE]
            IN  [st |-> noteBurstStart(st2, c), value |-> all.value]
       ELSE [st |-> st, value |-> st.value[c]]

\* this.sources.map((source) => source.current()): the tuple of the values,
\* each preceded by a separator.
currentOfSources(st, m, i, acc) ==
  IF i > Len(sources[m]) THEN [st |-> st, value |-> acc]
  ELSE LET r == current(st, sources[m][i])
       IN  currentOfSources(r.st, m, i + 1, acc \o <<9>> \o r.value)

\* A get that returns what current() returns, handle or not.
getWithoutUnwrap(st, c, default) ==
  IF ~ready(st, c)
  THEN IF default # UNDEFINED_VALUE
       THEN [st |-> st, value |-> default, thrown |-> FALSE]
       ELSE [st |-> st, value |-> UNDEFINED_VALUE, thrown |-> TRUE]
  ELSE LET first == current(st, c)
       IN  [st |-> first.st, value |-> first.value, thrown |-> FALSE]

\* get(object, _default) on a cell: [st, value, thrown]. An omitted default is
\* UNDEFINED_VALUE.
get(st, c, default) ==
  IF ~ready(st, c)
  THEN IF default # UNDEFINED_VALUE
       THEN [st |-> st, value |-> default, thrown |-> FALSE]
       ELSE [st |-> st, value |-> UNDEFINED_VALUE, thrown |-> TRUE]
  ELSE LET first == current(st, c)
           second == current(first.st, c)
       IN  [st |-> second.st,
            value |-> IF isResourceHandle(first.value)
                      THEN resource(second.value) ELSE second.value,
            thrown |-> FALSE]

\* The fields of the cells and handles, without the record of what happened.
ProgramState(st) ==
  <<st.value, st.initialized, st.readySet, st.invalidated, st.readySubs,
    st.invSubs, st.counter, st.disposed>>

\* Start of the record of an operation.
beginOp(st) ==
  IF st.record = "values"
  THEN [st EXCEPT !.sent = [ready |-> 0, inv |-> 0], !.computes = 0]
  ELSE IF st.record = "heard" THEN [st EXCEPT !.heard = <<>>]
  ELSE st

\* The record of a root holding one handle alone being set to another, unused
\* handle, and of the current() call on the cell derived from it that follows.
nextSwap(old, name, c, arg) ==
  IF /\ name = "set"
     /\ isResourceHandle(old.value[c]) /\ isResourceHandle(arg) /\ arg # old.value[c]
     /\ old.counter[old.value[c][1]] = 1 /\ old.disposed[old.value[c][1]] = 0
     /\ old.counter[arg[1]] = 0 /\ old.disposed[arg[1]] = 0
  THEN <<[root |-> c, old |-> old.value[c][1], new |-> arg[1], resolved |-> FALSE]>>
  ELSE IF /\ name = "current" /\ old.swap # <<>> /\ ~old.swap[1].resolved
          /\ c \in DerivedCells /\ sources[c] = <<old.swap[1].root>>
  THEN <<[old.swap[1] EXCEPT !.resolved = TRUE]>>
  ELSE <<>>

\* End of the record of an operation on cell c: what was asked, what came
\* back, and what the cell and the handles were before.
endOp(old, new, name, c, arg, value, thrown) ==
  IF old.record # "values" THEN new
  ELSE [new EXCEPT
          !.op = <<[name |-> name, cell |-> c, arg |-> arg,
                    value |-> value, thrown |-> thrown,
                    prevValue |-> old.value[c],
                    prevReady |-> ready(old, c),
                    prevInvalidated |-> c \in BaseCells /\ old.invalidated[c],
                    prevCounter |-> old.counter,
                    prevDisposed |-> old.disposed,
                    same |-> ProgramState(new) = ProgramState(old)]>>,
          !.swap = nextSwap(old, name, c, arg)]

\* ---- actions -----------------------------------------------------------
\* A call of current() on cell c from outside.
Current(c) ==
  LET r == current(beginOp(cells), c)
  IN  cells' = endOp(cells, r.st, "current", c, UNDEFINED_VALUE, r.value, FALSE)

RootSet(r, v) ==
  cells' = endOp(cells, set(beginOp(cells), r, v), "set", r, v, UNDEFINED_VALUE, FALSE)

EnsureInitialized(d) ==
  cells' = endOp(cells, ensureInitialized(beginOp(cells), d), "ensureInitialized", d,
                 UNDEFINED_VALUE, UNDEFINED_VALUE, FALSE)

Dispose(d) ==
  cells' = endOp(cells, dispose(beginOp(cells), d), "dispose", d,
                 UNDEFINED_VALUE, UNDEFINED_VALUE, FALSE)

\* A call of get(c, default) from outside; an exception leaves the caller
\* with the state get left.
Get(c, default) ==
  LET r == get(beginOp(cells), c, default)
  IN  cells' = endOp(cells, r.st, "get", c, default, r.value, r.thrown)

\* All cells constructed, none initialized; roots constructed without value.
NewCells(values, watch, record) ==
  [value       |-> [c \in Cells |-> UNDEFINED_VALUE],
   initialized |-> [d \in BaseCells |-> FALSE],
   readySet    |-> [d \in BaseCells |-> FALSE],
   invalidated |-> [d \in BaseCells |-> FALSE],
   readySubs   |-> [c \in Cells |-> <<>>],
   invSubs     |-> [c \in Cells |-> <<>>],
   values      |-> values,
   watch       |-> watch,
   record      |-> record,
   burst       |-> <<>>,
   received    |-> 0,
   pending     |-> 0,
   computes    |-> 0,
   events      |-> 0,
   transitions |-> 0,
   stay        |-> <<>>,
   heard       |-> <<>>,
   counter     |-> [h \in Handles |-> 0],
   disposed    |-> [h \in Handles |-> 0],
   kind        |-> "tag",
   sent        |-> [ready |-> 0, inv |-> 0],
   op          |-> <<>>,
   swap        |-> <<>>]

OtherIdle == PosIdle /\ HandleIdle /\ SchedIdle

OtherUnchanged == UNCHANGED <<posVars, handleVars, schedVars>>

CellsNext ==
  \/ \E r \in RootCells : \E v \in cells.values \cup {UNDEFINED_VALUE} :
       RootSet(r, v) /\ OtherUnchanged
  \/ \E d \in BaseCells : EnsureInitialized(d) /\ OtherUnchanged
  \/ \E d \in BaseCells : Dispose(d) /\ OtherUnchanged
  \/ \E c \in Cells : Current(c) /\ OtherUnchanged

\* The cell graph with two root values, nothing recorded.
SpecCellsInit == OtherIdle /\ cells = NewCells(RootValues, "none", "none")

SpecCells == SpecCellsInit /\ [][CellsNext]_vars

\* The cell graph with the bursts of invalidation events of one cell recorded.
SpecBurstInit ==
  OtherIdle /\ \E d \in BaseCells : cells = NewCells({<<1>>}, d, "burst")

SpecBurst == SpecBurstInit /\ [][CellsNext]_vars

\* The cell graph with the windows between the current() calls of one derived
\* cell recorded.
SpecWindowInit ==
  OtherIdle /\ \E d \in DerivedCells : cells = NewCells({<<1>>}, d, "window")

SpecWindow == SpecWindowInit /\ [][CellsNext]_vars

\* One root given plain values and resource handles, and the cell derived from
\* it, with every operation recorded.
ValueCells == {"R1", "D1"}

\* The defaults a caller passes to get: none, or a plain value.
Defaults == {UNDEFINED_VALUE, <<7>>}

ValuesNext ==
  \/ \E v \in cells.values \cup {UNDEFINED_VALUE} : RootSet("R1", v) /\ OtherUnchanged
  \/ \E d \in ValueCells \cap BaseCells : EnsureInitialized(d) /\ OtherUnchanged
  \/ \E d \in ValueCells \cap BaseCells : Dispose(d) /\ OtherUnchanged
  \/ \E c \in ValueCells : Current(c) /\ OtherUnchanged
  \/ \E c \in ValueCells : \E default \in Defaults : Get(c, default) /\ OtherUnchanged

SpecValuesInit ==
  /\ OtherIdle
  /\ \E k \in {"tag", "pass"} :
       cells = [NewCells({<<1>>, <<101>>, <<102>>}, "none", "values") EXCEPT !.kind = k]

SpecValues == SpecValuesInit /\ [][ValuesNext]_vars

\* The cell graph with the events of the readiness channels recorded.
SpecReadyInit == OtherIdle /\ cells = NewCells({<<1>>}, "none", "ready")

SpecReady == SpecReadyInit /\ [][CellsNext]_vars

\* The cell graph with the runs of the readiness listeners of the last
\* operation recorded.
SpecHeardInit == OtherIdle /\ cells = NewCells({<<1>>}, "none", "heard")

SpecHeard == SpecHeardInit /\ [][CellsNext]_vars

\* ---- properties --------------------------------------------------------
AllSourcesReady(d) == \A i \in 1..Len(sources[d]) : ready(cells, sources[d][i])

\* C5: every initialized derived or merged cell is ready if and only if
\* every one of its direct sources reports ready, after any sequence of root
\* set/unset calls (and of initialize, dispose and current calls).
C5_ReadinessEquivalence ==
  \A d \in BaseCells :
    cells.initialized[d] => (ready(cells, d) <=> AllSourcesReady(d))

\* The merged cell and the end of the chain are initialized and ready, both
\* roots having been set.
C5_Witness ==
  /\ cells.initialized["M"] /\ cells.initialized["E"]
  /\ ready(cells, "M") /\ ready(cells, "E")
  /\ cells.value["R1"] = <<2>> /\ cells.value["R2"] # UNDEFINED_VALUE

\* C7: in the window between two consecutive current() calls on an initialized
\* derived cell, whatever the number of invalidation events received, the
\* compute function is invoked at most once, and only inside the second call.
C7_InvalidationCoalescing ==
  cells.record = "window" => (cells.computes <= 1 /\ cells.pending = 0)

\* A current() call on the watched derived cell has just returned after a
\* window with two or more invalidation events, and it recomputed once.
C7_Witness ==
  /\ cells.record = "window" /\ cells.initialized[cells.watch]
  /\ cells.events >= 2 /\ cells.computes = 1

\* C8: in every burst of invalidation events received by an initialized
\* derived or merged cell (between two recomputations, or between
\* initialization and the first recomputation) the first event is forwarded
\* downstream and every later event is not.
C8_OneForwardPerBurst ==
  (cells.record = "burst" /\ cells.initialized[cells.watch] /\ cells.burst # <<>>)
    => /\ cells.burst[1]
       /\ \A i \in 2..Len(cells.burst) : ~cells.burst[i]

\* C12: every event delivered to the subscribers of a cell's readiness
\* channel carries a ready value different from the cell's readiness before
\* the event; no event is delivered when readiness stays the same, including
\* during ensureInitialized of a derived or merged cell.
C12_ReadyEventsAreTransitions ==
  cells.record = "ready" => cells.stay = <<>>

\* The operation just made on the recorded cells is the named one.
LastOp(name) ==
  cells.record = "values" /\ cells.op # <<>> /\ cells.op[1].name = name

\* C13: get on a cell that is not ready throws and changes no state when no
\* default is supplied, and returns the default when one is supplied; on a
\* ready cell it returns the cell's current value, unwrapped to the resource
\* when that value is a resource handle.
C13_GetContract ==
  LastOp("get") =>
    LET o == cells.op[1]
    IN  /\ (~o.prevReady /\ o.arg = UNDEFINED_VALUE) => (o.thrown /\ o.same)
        /\ (~o.prevReady /\ o.arg # UNDEFINED_VALUE) => (~o.thrown /\ o.value = o.arg)
        /\ o.prevReady =>
             /\ ~o.thrown
             /\ o.value = IF isResourceHandle(cells.value[o.cell])
                          THEN resource(cells.value[o.cell])
                          ELSE cells.value[o.cell]

\* A get on the root while it held a handle returned the handle's resource.
C13_Witness ==
  /\ LastOp("get") /\ cells.op[1].cell = "R1"
  /\ isResourceHandle(cells.value["R1"])
  /\ cells.op[1].value = resource(cells.value["R1"])

\* Swap scenario as stated in C15: a root holds Handle1 with reference count
\* 1, the root is set to Handle2, then current() is called on the cell derived
\* from the root: Handle1's dispose callback has run exactly once and
\* Handle2's reference count is 1.
C15_ResourceSwapAnyCompute ==
  (LastOp("current") /\ cells.swap # <<>> /\ cells.swap[1].resolved)
    => /\ cells.disposed[cells.swap[1].old] = 1
       /\ cells.counter[cells.swap[1].new] = 1

\* C15 amended: the same scenario for a derived cell that does not hold a
\* resource handle itself after the call (its compute function builds a plain
\* value from the root's handle).
C15_ResourceSwap ==
  (/\ LastOp("current") /\ cells.swap # <<>> /\ cells.swap[1].resolved
   /\ ~isResourceHandle(cells.value[cells.op[1].cell]))
    => /\ cells.disposed[cells.swap[1].old] = 1
       /\ cells.counter[cells.swap[1].new] = 1

\* The scenario with an initialized derived cell that recomputed its plain
\* value from Handle2.
C15_Witness ==
  /\ LastOp("current") /\ cells.swap # <<>> /\ cells.swap[1].resolved
  /\ cells.initialized[cells.op[1].cell]
  /\ cells.value[cells.op[1].cell] = compute(cells.op[1].cell, <<cells.swap[1].new>>)
  /\ cells.disposed[cells.swap[1].old] = 1
  /\ cells.counter[cells.swap[1].new] = 1

\* C16: RootVolatile.set(v) stores v, detaches the previous value and
\* attaches v when they are resource handles, emits a readiness event if and
\* only if ready() differs before and after, and emits exactly one
\* invalidation event on every call.
C16_SetContract ==
  LastOp("set") =>
    LET o == cells.op[1]
    IN  /\ cells.value[o.cell] = o.arg
        /\ \A h \in Handles :
             cells.counter[h] = o.prevCounter[h]
                                  + (IF o.arg = <<h>> THEN 1 ELSE 0)
                                  - (IF o.prevValue = <<h>> THEN 1 ELSE 0)
        /\ cells.sent.ready = (IF o.prevReady # ready(cells, o.cell) THEN 1 ELSE 0)
        /\ cells.sent.inv = 1

\* A set to the handle the root already held, with a subscriber on the
\* root's invalidation channel, sent one invalidation event.
C16_Witness ==
  /\ LastOp("set")
  /\ isResourceHandle(cells.op[1].arg) /\ cells.op[1].arg = cells.op[1].prevValue
  /\ cells.invSubs[cells.op[1].cell] # <<>>
  /\ cells.sent.inv = 1 /\ cells.sent.ready = 0

\* The operation just recorded detached once from handle h: its count is one
\* less, its dispose callback ran if and only if the count reached zero, and
\* no other handle was touched.
DetachedOnce(h) ==
  LET o == cells.op[1]
  IN  /\ cells.counter[h] = o.prevCounter[h] - 1
      /\ cells.disposed[h] = IF o.prevCounter[h] = 1 /\ o.prevDisposed[h] < MaxDisposals
                             THEN o.prevDisposed[h] + 1 ELSE o.prevDisposed[h]
      /\ \A g \in Handles \ {h} :
           cells.counter[g] = o.prevCounter[g] /\ cells.disposed[g] = o.prevDisposed[g]

\* C23: unset() on a root that holds a resource handle detaches from it once
\* (disposing it when the count reaches zero); dispose() on a derived cell
\* whose cached value is a resource handle detaches from it once and forgets
\* it, so that a dispose() of a derived cell that holds no handle (a second
\* dispose) touches no handle.
C23_ReleaseDetaches ==
  /\ (LastOp("set") /\ cells.op[1].arg = UNDEFINED_VALUE
        /\ isResourceHandle(cells.op[1].prevValue))
       => DetachedOnce(cells.op[1].prevValue[1])
  /\ (LastOp("dispose") /\ cells.op[1].cell \in DerivedCells)
       => IF isResourceHandle(cells.op[1].prevValue)
          THEN /\ DetachedOnce(cells.op[1].prevValue[1])
               /\ cells.value[cells.op[1].cell] = UNDEFINED_VALUE
               /\ ~cells.initialized[cells.op[1].cell]
          ELSE /\ cells.counter = cells.op[1].prevCounter
               /\ cells.disposed = cells.op[1].prevDisposed

\* A derived cell that was the last holder of a handle has been disposed and
\* the handle was disposed with it.
C23_Witness ==
  /\ LastOp("dispose") /\ cells.op[1].cell \in DerivedCells
  /\ isResourceHandle(cells.op[1].prevValue)
  /\ cells.counter[cells.op[1].prevValue[1]] = 0
  /\ cells.disposed[cells.op[1].prevValue[1]] = 1

\* C26: a derived or merged cell that receives a readiness event from a
\* source emits its own readiness event if and only if its ready() value
\* changed in the course of it; it emits nothing on an event that says
\* "ready" while one of its sources is not ready, and it is not ready after
\* an event that says "not ready".
C26_ReadinessChurnSuppressed ==
  cells.record = "heard" =>
    \A n \in DOMAIN cells.heard :
      LET h == cells.heard[n]
      IN  /\ h.emitted <=> (h.before # h.after)
          /\ (h.ready /\ ~h.allReady) => ~h.emitted
          /\ ~h.ready => ~h.after

\* The merged cell stayed silent on a "ready" event of one source while
\* another source was not ready, and a cell emitted on an event that changed
\* its readiness.
C26_Witness ==
  /\ cells.record = "heard"
  /\ \E n \in DOMAIN cells.heard :
       /\ cells.heard[n].cell = "M" /\ cells.heard[n].ready
       /\ ~cells.heard[n].allReady /\ ~cells.heard[n].emitted
  /\ \E n \in DOMAIN cells.heard : cells.heard[n].emitted

\* C27: compute is invoked only in the course of current() (which get
\* calls); a current() call on a derived cell invokes it once when the cell
\* is ready and invalidated, and otherwise invokes neither compute nor any
\* attach or detach, changes nothing and returns the cached value.
C27_ComputeOnlyWhenDue ==
  (cells.record = "values" /\ cells.op # <<>>) =>
    LET o == cells.op[1]
    IN  /\ o.name \in {"set", "ensureInitialized", "dispose"} => cells.computes = 0
        /\ (o.name = "current" /\ o.cell \in DerivedCells) =>
             IF o.prevReady /\ o.prevInvalidated
             THEN cells.computes = 1 /\ ~cells.invalidated[o.cell]
             ELSE /\ cells.computes = 0
                  /\ cells.counter = o.prevCounter
                  /\ cells.disposed = o.prevDisposed
                  /\ o.same
                  /\ o.value = unwrap(o.prevValue)

\* current() was called on a ready derived cell that holds a value and was
\* not invalidated.
C27_Witness ==
  /\ LastOp("current") /\ cells.op[1].cell \in DerivedCells
  /\ cells.op[1].prevReady /\ ~cells.op[1].prevInvalidated
  /\ cells.op[1].prevValue # UNDEFINED_VALUE
  /\ cells.computes = 0

\* The cells whose stored value is the handle h.
Holders(h) == {c \in RootCells \cup DerivedCells : cells.value[c] = <<h>>}

\* C31: the dispose callback of a handle has not been invoked while the
\* handle is the stored value of a root or derived cell.
C31_NeverDisposedWhileHeld ==
  cells.record = "values" =>
    \A h \in Handles : Holders(h) # {} => cells.disposed[h] = 0

\* C32: each resource handle's counter equals the number of root and derived
\* cells whose stored value is that handle.
C32_CounterCountsHolders ==
  cells.record = "values" =>
    \A h \in Handles : cells.counter[h] = Cardinality(Holders(h))

\* The root and the cell derived from it hold the same handle, counted twice.
C32_Witness ==
  /\ cells.record = "values"
  /\ \E h \in Handles : Holders(h) = {"R1", "D1"} /\ cells.counter[h] = 2

\* The cell graph on which dispose is never called: root set and unset,
\* initialization and current() calls on every cell.
FreshNext ==
  \/ \E r \in RootCells : \E v \in cells.values \cup {UNDEFINED_VALUE} :
       RootSet(r, v) /\ OtherUnchanged
  \/ \E d \in BaseCells : EnsureInitialized(d) /\ OtherUnchanged
  \/ \E c \in Cells : Current(c) /\ OtherUnchanged

SpecFreshInit == OtherIdle /\ cells = NewCells(RootValues, "none", "fresh")

SpecFresh == SpecFreshInit /\ [][FreshNext]_vars

AllInitialized == \A d \in BaseCells : cells.initialized[d]

\* What a current() call on c made now returns.
Returned(c) == current(cells, c).value

\* C33: in a graph of initialized cells on which dispose is never called, a
\* current() call on a ready derived cell returns its compute function
\* applied to what its source's current() returns at that moment, and a
\* current() call on a ready merged cell returns the values its sources'
\* current() calls return, whatever root set, unset and current() calls came
\* before.
C33_NoStaleRead ==
  (cells.record = "fresh" /\ AllInitialized) =>
    /\ \A d \in DerivedCells :
         ready(cells, d) =>
           Returned(d) = unwrap(computeOf(cells, d, Returned(sources[d][1])))
    /\ \A m \in MergedCells :
         ready(cells, m) => Returned(m) = currentOfSources(cells, m, 1, <<>>).value

\* The end of the chain is ready and holds a value computed from a value the
\* root no longer has; the merged cell holds a value as well.
C33_Witness ==
  /\ cells.record = "fresh" /\ AllInitialized
  /\ ready(cells, "E") /\ ready(cells, "M")
  /\ cells.value["E"] # UNDEFINED_VALUE
  /\ cells.value["E"] # compute("E", compute("D1", cells.value["R1"]))
  /\ cells.value["M"] # UNDEFINED_VALUE

\* The state after D1.dispose(), R1.set(v) and D1.ensureInitialized().
Reinitialized(v) == ensureInitialized(set(dispose(cells, "D1"), "R1", v), "D1")

\* C34: after the derived cell D1 is disposed, its root set to a new value
\* and D1 initialized again, the next current() of the still initialized,
\* ready cell E derived from D1 returns a value computed from the root's new
\* value.
C34_ReinitializedSourceFresh ==
  (cells.record = "fresh" /\ cells.initialized["E"]) =>
    \A v \in cells.values :
      LET st == Reinitialized(v)
      IN  (v # cells.value["R1"] /\ st.initialized["E"] /\ ready(st, "E")) =>
            current(st, "E").value = compute("E", compute("D1", v))

(***************************************************************************)
(* AUXILIARIES OF CELLS                                                    *)
(*                                                                         *)
(* The auxiliary of each root cell and the set of auxiliaries each derived *)
(* and merged cell of the cell graph keeps once it has computed it. cells  *)
(* holds the record; got is the last getAuxiliaries() call and the set it  *)
(* returned.                                                               *)
(***************************************************************************)
\* The cells given to setAuxiliary.
AuxiliaryCells == {"X", "Y"}

NewAuxiliaries ==
  [auxiliary   |-> [r \in RootCells |-> "undefined"],
   auxiliaries |-> [c \in BaseCells |-> <<>>],
   got         |-> <<>>]

\* getAuxiliaries() of cell c: [st, value]. A derived or merged cell whose
\* auxiliaries field is undefined (<<>>) computes it from its sources and
\* keeps it (<<set>>).
RECURSIVE getAuxiliariesOf(_, _)
RECURSIVE mergeAuxiliaries(_, _, _, _)
getAuxiliariesOf(st, c) ==
  IF c \in RootCells
  THEN [st |-> st,
        value |-> IF st.auxiliary[c] # "undefined" THEN {st.auxiliary[c]} ELSE {}]
  ELSE IF st.auxiliaries[c] # <<>>
  THEN [st |-> st, value |-> st.auxiliaries[c][1]]
  ELSE IF c \in DerivedCells
  THEN LET r == getAuxiliariesOf(st, sources[c][1])
       IN  [st |-> [r.st EXCEPT !.auxiliaries[c] = <<r.value>>], value |-> r.value]
  ELSE LET r == mergeAuxiliaries(st, c, 1, {})
       IN  [st |-> [r.st EXCEPT !.auxiliaries[c] = <<r.value>>], value |-> r.value]

\* this.sources.forEach((source) => source.getAuxiliaries().forEach(add))
mergeAuxiliaries(st, c, i, acc) ==
  IF i > Len(sources[c]) THEN [st |-> st, value |-> acc]
  ELSE LET r == getAuxiliariesOf(st, sources[c][i])
       IN  mergeAuxiliaries(r.st, c, i + 1, acc \cup r.value)

\* RootVolatile.setAuxiliary
RootSetAuxiliary(r, a) ==
  cells' = [cells EXCEPT !.auxiliary[r] = a, !.got = <<>>]

\* getAuxiliaries() called on a cell
GetAuxiliaries(c) ==
  LET r == getAuxiliariesOf(cells, c)
  IN  cells' = [r.st EXCEPT !.got = <<[cell |-> c, value |-> r.value]>>]

AuxiliariesInit == OtherIdle /\ cells = NewAuxiliaries

AuxiliariesNext ==
  \/ \E r \in RootCells, a \in AuxiliaryCells : RootSetAuxiliary(r, a) /\ OtherUnchanged
  \/ \E c \in Cells : GetAuxiliaries(c) /\ OtherUnchanged

SpecAuxiliaries == AuxiliariesInit /\ [][AuxiliariesNext]_vars

\* The root cells reachable from c through its chain of sources.
RECURSIVE RootsOf(_)
RootsOf(c) ==
  IF c \in RootCells THEN {c}
  ELSE UNION {RootsOf(sources[c][i]) : i \in DOMAIN sources[c]}

\* C22: a getAuxiliaries() call on a derived or merged cell returns the
\* union of the auxiliaries set at that time on the root cells reachable
\* through its sources.
C22_AuxiliariesTransitive ==
  (cells.got # <<>> /\ cells.got[1].cell \in BaseCells) =>
    cells.got[1].value =
      {cells.auxiliary[r] : r \in RootsOf(cells.got[1].cell)} \ {"undefined"}

(***************************************************************************)
(* FRAME SCHEDULER                                                         *)
(*                                                                         *)
(* The cell registry of one Renderer. P and Q are root cells whose         *)
(* auxiliary can be set; RES is a cell derived from the before-render      *)
(* pulse whose compute function calls resolveComponentVolatiles of the     *)
(* same renderer (the resolver of a MiniView showing its own renderer).    *)
(* The fields live and log are a record of the registrations made and of   *)
(* the calls of the last resolution pass; the code does not read them.     *)
(***************************************************************************)
AuxCells   == {"P", "Q"}
SchedCells == AuxCells \cup {"RES"}

\* Outstanding registrations (unregister callbacks not yet called).
MaxLive == 2

\* Largest registration count a Register call may start from.
MaxCounter == 2

\* Depth of nested resolveComponentVolatiles calls the stack allows.
MaxNesting == 2

\* counters.get(volatile) of a cell the Map does not hold, and the result of
\* arithmetic on it.
Undefined == -1
NaN == -2

\* Volatile.getAuxiliaries of a scheduler cell: the root's auxiliary, if set.
getAuxiliaries(st, v) ==
  IF v \in AuxCells /\ st.auxiliary[v] # "none" THEN {st.auxiliary[v]} ELSE {}

counterGet(st, v) ==
  IF v \in DOMAIN st.counters THEN st.counters[v] ELSE Undefined

counterSet(st, v, n) ==
  [st EXCEPT !.counters = [x \in DOMAIN st.counters \cup {v} |->
                             IF x = v THEN n ELSE st.counters[x]]]

\* registry.add(volatile)
registryAdd(st, v) ==
  IF v \in DOMAIN st.nodes THEN st
  ELSE [st EXCEPT !.nodes = [x \in DOMAIN st.nodes \cup {v} |->
                               IF x = v THEN NewNode ELSE st.nodes[x]],
                  !.roots = Append(@, v)]

\* registry.order(a, b); the result is not read by registerVolatile.
registryOrder(st, a, b) ==
  LET r == order(st.nodes, st.roots, a, b)
  IN  [st EXCEPT !.nodes = r.nodes, !.roots = r.roots]

\* registry.delete(volatile)
registryDelete(st, v) ==
  IF v \in DOMAIN st.nodes
  THEN [st EXCEPT !.nodes = removeNode(st.nodes, v), !.roots = SetDelete(@, v)]
  ELSE st

\* registerVolatile(registry, counters, volatile). A root has at most one
\* auxiliary, so the forEach runs at most once. declared collects the
\* (auxiliary, cell) pairs the call ordered.
RECURSIVE registerVolatile(_, _)
registerVolatile(st, v) ==
  LET st1 == registryAdd(st, v)
      c   == counterGet(st1, v)
      st2 == counterSet(st1, v, IF c = Undefined THEN 1
                                ELSE IF c = NaN THEN NaN ELSE c + 1)
      aux == getAuxiliaries(st2, v)
  IN  IF aux = {} THEN st2
      ELSE LET a == CHOOSE x \in aux : TRUE
               st3 == registerVolatile(st2, a)
           IN  [registryOrder(st3, a, v) EXCEPT !.declared = @ \cup {<<a, v>>}]

\* unregisterVolatile with the registry left alone at the last registration.
RECURSIVE unregisterVolatile(_, _)
\* unregisterVolatile(registry, counters, volatile)
unregisterVolatile(st, v) ==
  LET aux == getAuxiliaries(st, v)
      st1 == IF aux = {} THEN st
             ELSE unregisterVolatile(st, CHOOSE x \in aux : TRUE)
      c   == counterGet(st1, v)
  IN  IF c = 1 THEN registryDelete(st1, v)
      ELSE counterSet(st1, v, IF c \in {Undefined, NaN} THEN NaN ELSE c - 1)

Event(ev, depth) == [ev |-> ev, depth |-> depth]

\* resolveComponentVolatiles without the check of symbolResolutionInProgress.
RECURSIVE resolveComponentVolatiles(_, _)
RECURSIVE resolveEach(_, _, _)
RECURSIVE resolvePass(_, _)
resolveUnguarded(st, depth) ==
  IF depth > MaxNesting THEN [st EXCEPT !.log = Append(@, Event("overflow", depth))]
  ELSE resolvePass([st EXCEPT !.log = Append(@, Event("enter", depth))], depth)

\* resolveComponentVolatiles() called at the given nesting depth.
resolveComponentVolatiles(st, depth) ==
  IF depth > MaxNesting THEN [st EXCEPT !.log = Append(@, Event("overflow", depth))]
  ELSE LET st1 == [st EXCEPT !.log = Append(@, Event("enter", depth))]
       IN  IF st1.symbolResolutionInProgress
           THEN [st1 EXCEPT !.log = Append(@, Event("return", depth))]
           ELSE resolvePass(st1, depth)

\* A pass that evaluates sortedValues() whether or not an order is cached.
resolvePassUncached(st, depth) ==
  LET st1 == [st EXCEPT !.symbolResolutionInProgress = TRUE,
                        !.log = Append(@, Event("pulse", depth))]
      st2 == [st1 EXCEPT !.sortedVolatiles = sortedValues(st1.nodes, st1.roots),
                         !.log = Append(@, Event("sortedValues", depth))]
      st3 == resolveEach(st2, 1, depth)
  IN  [st3 EXCEPT !.symbolResolutionInProgress = FALSE,
                  !.log = Append(@, Event("return", depth))]

\* The body of resolveComponentVolatiles after the guard. The evaluation of
\* volatileRegistry.sortedValues() is an event of the log.
resolvePass(st, depth) ==
  LET st1 == [st EXCEPT !.symbolResolutionInProgress = TRUE,
                        !.log = Append(@, Event("pulse", depth))]
      st2 == IF st1.sortedVolatiles = <<"null">>
             THEN [st1 EXCEPT !.sortedVolatiles = sortedValues(st1.nodes, st1.roots),
                              !.log = Append(@, Event("sortedValues", depth))]
             ELSE st1
      st3 == resolveEach(st2, 1, depth)
  IN  [st3 EXCEPT !.symbolResolutionInProgress = FALSE,
                  !.log = Append(@, Event("return", depth))]

\* sortedVolatiles.current.forEach((volatile) => volatile.current()): the
\* resolver's compute function calls resolveComponentVolatiles again.
resolveEach(st, i, depth) ==
  IF i > Len(st.sortedVolatiles) THEN st
  ELSE LET v == st.sortedVolatiles[i]
           st1 == [st EXCEPT !.log = Append(@, Event(v, depth))]
           st2 == IF v = "RES" THEN resolveComponentVolatiles(st1, depth + 1)
                  ELSE st1
       IN  resolveEach(st2, i + 1, depth)

\* ---- actions -----------------------------------------------------------
\* The auxiliary chain starting at a does not lead to r.
RECURSIVE AuxReaches(_, _, _)
AuxReaches(st, a, r) ==
  \/ a = r
  \/ /\ a \in AuxCells /\ st.auxiliary[a] # "none"
     /\ AuxReaches(st, st.auxiliary[a], r)

\* RootVolatile.setAuxiliary
SetAuxiliary(r, a) ==
  /\ ~AuxReaches(sched, a, r)
  /\ sched.auxiliary[r] # a
  /\ sched' = [sched EXCEPT !.auxiliary[r] = a, !.log = <<>>]

\* registerComponentVolatile(volatile)
Register(v) ==
  /\ Len(sched.live) < MaxLive
  /\ \A x \in DOMAIN sched.counters : sched.counters[x] < MaxCounter
  /\ LET st == registerVolatile([sched EXCEPT !.declared = {}], v)
     IN  sched' = [st EXCEPT !.sortedVolatiles = <<"null">>,
                             !.live = Append(@, [cell |-> v, pairs |-> st.declared]),
                             !.declared = {},
                             !.log = <<>>]

\* The callback returned by registerComponentVolatile
Unregister(i) ==
  /\ i \in 1..Len(sched.live)
  /\ LET st == unregisterVolatile(sched, sched.live[i].cell)
     IN  sched' = [st EXCEPT !.live = [j \in 1..(Len(@) - 1) |->
                                         IF j < i THEN @[j] ELSE @[j + 1]],
                             !.log = <<>>]

\* One tick: RenderScreen calls resolveComponentVolatiles()
Resolve ==
  sched' = resolveComponentVolatiles([sched EXCEPT !.log = <<>>], 0)

SchedInit ==
  sched = [auxiliary |-> [r \in AuxCells |-> "none"],
           nodes |-> <<>>,
           roots |-> <<>>,
           counters |-> <<>>,
           sortedVolatiles |-> <<"null">>,
           symbolResolutionInProgress |-> FALSE,
           live |-> <<>>,
           declared |-> {},
           log |-> <<>>]

SchedFrame == UNCHANGED <<posVars, handleVars, cellVars>>

SchedNext ==
  \/ \E r \in AuxCells, a \in SchedCells : SetAuxiliary(r, a) /\ SchedFrame
  \/ \E v \in SchedCells : Register(v) /\ SchedFrame
  \/ \E i \in 1..MaxLive : Unregister(i) /\ SchedFrame
  \/ Resolve /\ SchedFrame

SpecSchedulerInit == PosIdle /\ HandleIdle /\ CellsIdle /\ SchedInit

SpecScheduler == SpecSchedulerInit /\ [][SchedNext]_vars

\* ---- scheduler properties ------------------------------------------------
\* The positions of the outer pass's calls of v.current() in the log.
CallsOf(v) == {n \in DOMAIN sched.log : sched.log[n] = Event(v, 0)}

\* The cells the outer pass called current() on, in call order.
OuterCalls ==
  LET calls0 == SelectSeq(sched.log, LAMBDA e : e.depth = 0 /\ e.ev \in SchedCells)
  IN  [n \in DOMAIN calls0 |-> calls0[n].ev]

NestedEnters == {n \in DOMAIN sched.log :
                   sched.log[n].ev = "enter" /\ sched.log[n].depth > 0}

\* C9: in every resolution pass, for every registered cell v and every cell
\* a that v declared as an auxiliary when it was registered, a.current() is
\* called strictly before v.current().
C9_AuxiliaryBeforeDependent ==
  sched.log # <<>> =>
    \A i \in DOMAIN sched.live : \A p \in sched.live[i].pairs :
      /\ CallsOf(p[2]) # {}
      /\ \A n \in CallsOf(p[2]) : \E m \in CallsOf(p[1]) : m < n

\* C10: a call of resolveComponentVolatiles made from inside a cell's
\* current() while a pass of the same renderer is in progress returns at once,
\* without the pulse and without any current() call, and the outer pass calls
\* current() on every cell of its sorted list exactly once.
C10_ReentrantResolution ==
  NestedEnters # {} =>
    /\ \A n \in NestedEnters :
         /\ n < Len(sched.log)
         /\ sched.log[n + 1] = Event("return", sched.log[n].depth)
    /\ \A n \in DOMAIN sched.log :
         sched.log[n].depth > 0 => sched.log[n].ev \in {"enter", "return"}
    /\ OuterCalls = sched.sortedVolatiles

C10_Witness ==
  /\ NestedEnters # {}
  /\ Len(sched.sortedVolatiles) >= 2
  /\ sched.sortedVolatiles[Len(sched.sortedVolatiles)] # "RES"
  /\ OuterCalls = sched.sortedVolatiles

\* The cells with an outstanding registration, direct or as an auxiliary
\* declared by one.
RegisteredCells ==
  {sched.live[i].cell : i \in DOMAIN sched.live}
    \cup UNION {{p[1], p[2]} : p \in UNION {sched.live[i].pairs : i \in DOMAIN sched.live}}

\* C11 (cells): every registration and unregistration invalidates the cached
\* sorted order, so a resolution pass resolves exactly the cells registered at
\* that time; a cell that was unregistered is not resolved by a later pass.
C11_PassResolvesRegisteredCells ==
  sched.log # <<>> =>
    {OuterCalls[n] : n \in DOMAIN OuterCalls} = RegisteredCells

\* The evaluations of volatileRegistry.sortedValues() in the log.
SortedValuesAt == {n \in DOMAIN sched.log : sched.log[n].ev = "sortedValues"}

\* C24: a resolution pass that finds a cached order (one was computed by an
\* earlier pass and no cell was registered since) does not evaluate
\* sortedValues() and leaves the cached sequence as it is; a pass that finds
\* none evaluates it once; every pass calls current() on the cached
\* sequence, in its order.
C24_SortedOrderMemoized ==
  [][sched'.log # <<>> =>
       /\ Cardinality(SortedValuesAt') =
            IF sched.sortedVolatiles = <<"null">> THEN 1 ELSE 0
       /\ sched.sortedVolatiles # <<"null">> =>
            sched'.sortedVolatiles = sched.sortedVolatiles
       /\ OuterCalls' = sched'.sortedVolatiles]_vars

\* A pass over two cells has used the order an earlier pass cached.
C24_Witness ==
  /\ sched.log # <<>>
  /\ SortedValuesAt = {}
  /\ Len(sched.sortedVolatiles) >= 2
  /\ Len(OuterCalls) >= 2

\* ---- the before-render pulse and a cell derived from it -----------------
\* Renderer: beforeRenderSignal = useVolatile(1), a root cell.
beforeRenderSignal == "R1"

\* A cell a component derives from the pulse:
\* useDerivatedVolatile(beforeRenderSignal, compute, deps, true).
pulseDerived == "D1"

\* The cells components register directly: the pulse-derived cell, and a root
\* cell that may be given an auxiliary.
PulseRegistered == {pulseDerived, "P"}

\* The cells that root may be given as auxiliary (FloatingVerticalStack gives
\* its output cells the pulse-derived cell).
PulseAuxiliaries == {pulseDerived, "Q"}

\* What a pass does to the cell graph, event by event of its log:
\* beforeRenderSignal.set(1), then volatile.current() of every sorted cell.
RECURSIVE passOnCells(_, _, _)
passOnCells(g, log, n) ==
  IF n > Len(log) THEN g
  ELSE passOnCells(IF log[n].ev = "pulse" THEN set(g, beforeRenderSignal, <<1>>)
                   ELSE IF log[n].ev \in Cells THEN current(g, log[n].ev).st
                   ELSE g,
                   log, n + 1)

\* resolveComponentVolatiles() of the renderer whose pulse and derived cell
\* are cells of the graph.
PulseResolve ==
  /\ sched' = resolveComponentVolatiles([sched EXCEPT !.log = <<>>], 0)
  /\ cells' = endOp(cells, passOnCells(beginOp(cells), sched'.log, 1), "pass",
                    beforeRenderSignal, <<1>>, UNDEFINED_VALUE, FALSE)

PulseInit ==
  /\ PosIdle /\ HandleIdle /\ SchedInit
  /\ cells = NewCells({<<1>>}, "none", "values")

PulseNext ==
  \/ \E a \in PulseAuxiliaries : SetAuxiliary("P", a) /\ SchedFrame
  \/ \E v \in PulseRegistered : Register(v) /\ SchedFrame
  \/ \E i \in 1..MaxLive : Unregister(i) /\ SchedFrame
  \/ PulseResolve /\ UNCHANGED <<posVars, handleVars>>
  \/ EnsureInitialized(pulseDerived) /\ OtherUnchanged
  \/ Dispose(pulseDerived) /\ OtherUnchanged
  \/ Current(pulseDerived) /\ OtherUnchanged

SpecPulse == PulseInit /\ [][PulseNext]_vars

\* The last step was a resolution pass.
AfterPass == cells.op # <<>> /\ cells.op[1].name = "pass" /\ sched.log # <<>>

\* The pulse-derived cell has an outstanding registration of its own.
PulseDerivedRegistered ==
  \E i \in DOMAIN sched.live : sched.live[i].cell = pulseDerived

\* C29 (cells): a registered, initialized derived cell whose source is the
\* before-render pulse has its compute function invoked exactly once in every
\* resolution pass, whether or not any other input changed.
C29_PulseDerivedComputedEachPass ==
  (AfterPass /\ PulseDerivedRegistered /\ cells.initialized[pulseDerived])
    => cells.computes = 1

\* C36 (cells): a cell is a member of the cell registry if and only if it
\* has been registered, directly or as an auxiliary, more times than
\* unregistered; register, unregister, register, unregister of one cell
\* leaves it absent.
C36_RegistryCountsRegistrations ==
  DOMAIN sched.nodes = RegisteredCells

\* ---- a pass in which a cell's current() throws --------------------------
\* The cells whose current() may throw in a pass (a compute function that
\* throws, or that calls get on a cell that is not ready), or none.
Throwers == SchedCells \cup {"none"}

\* sortedVolatiles.current.forEach((volatile) => volatile.current()) in which
\* the current() of cell t throws: [st, thrown].
RECURSIVE resolveEachThrowing(_, _, _, _)
resolveEachThrowing(st, i, depth, t) ==
  IF i > Len(st.sortedVolatiles) THEN [st |-> st, thrown |-> FALSE]
  ELSE LET v == st.sortedVolatiles[i]
           st1 == [st EXCEPT !.log = Append(@, Event(v, depth))]
       IN  IF v = t
           THEN [st |-> [st1 EXCEPT !.log = Append(@, Event("throw", depth))],
                 thrown |-> TRUE]
           ELSE resolveEachThrowing(
                  IF v = "RES" THEN resolveComponentVolatiles(st1, depth + 1) ELSE st1,
                  i + 1, depth, t)

\* resolveComponentVolatiles() from outside, with the current() of cell t
\* throwing: the exception leaves the function where it is thrown.
resolveComponentVolatilesThrowing(st, t) ==
  LET st0 == [st EXCEPT !.log = Append(@, Event("enter", 0))]
  IN  IF st0.symbolResolutionInProgress
      THEN [st0 EXCEPT !.log = Append(@, Event("return", 0))]
      ELSE LET st1 == [st0 EXCEPT !.symbolResolutionInProgress = TRUE,
                                  !.log = Append(@, Event("pulse", 0))]
               st2 == IF st1.sortedVolatiles = <<"null">>
                      THEN [st1 EXCEPT
                              !.sortedVolatiles = sortedValues(st1.nodes, st1.roots),
                              !.log = Append(@, Event("sortedValues", 0))]
                      ELSE st1
               r   == resolveEachThrowing(st2, 1, 0, t)
           IN  IF r.thrown THEN r.st
               ELSE [r.st EXCEPT !.symbolResolutionInProgress = FALSE,
                                 !.log = Append(@, Event("return", 0))]

\* One tick's resolveComponentVolatiles()
ResolveThrowing(t) ==
  sched' = resolveComponentVolatilesThrowing([sched EXCEPT !.log = <<>>], t)

GuardNext ==
  \/ \E r \in AuxCells, a \in SchedCells : SetAuxiliary(r, a) /\ SchedFrame
  \/ \E v \in SchedCells : Register(v) /\ SchedFrame
  \/ \E i \in 1..MaxLive : Unregister(i) /\ SchedFrame
  \/ \E t \in Throwers : ResolveThrowing(t) /\ SchedFrame

SpecGuard == SpecSchedulerInit /\ [][GuardNext]_vars

\* C35 (cells): whenever no resolveComponentVolatiles call is executing the
\* in-progress flag is false, also after a pass in which a cell's current()
\* threw, and every resolveComponentVolatiles call made from outside performs
\* a full pass (it sends the pulse).
C35_GuardReleased ==
  /\ ~sched.symbolResolutionInProgress
  /\ sched.log # <<>> => \E n \in DOMAIN sched.log : sched.log[n] = Event("pulse", 0)

(***************************************************************************)
(* RENDER STEPS                                                            *)
(*                                                                         *)
(* The step registry of one Renderer: the ordering graph of step           *)
(* identifiers seeded with the four stage boundary keys, the map of render *)
(* routines and the sorted routine list render() runs. S1 and S2 are the   *)
(* identifiers callers register steps under. The fields liveSteps and      *)
(* lastReg are a record of the registrations made; the code does not read  *)
(* them.                                                                   *)
(***************************************************************************)
\* commonSteps: UserInterfaceStage.start, UserInterfaceStage.end =
\* SubviewStage.start, SubviewStage.end = GlobalOverlayStage.start,
\* GlobalOverlayStage.end
commonSteps == <<"K0", "K1", "K2", "K3">>

StageKeys == Range(commonSteps)

StepIds == {"S1", "S2"}

\* The identifiers registrations are ordered against: the two boundary keys
\* of the first stage (UserInterfaceStage.start, UserInterfaceStage.end) and
\* the step identifiers.
Anchors == {"K0", "K1"} \cup StepIds

\* The after and before arguments of a registration: none or one identifier.
Constraints == {<<>>} \cup {<<k>> : k \in Anchors}

\* initializeRenderSteps: [nodes, roots] of the seeded set.
RECURSIVE initializeRenderSteps(_, _)
initializeRenderSteps(g, i) ==
  IF i > Len(commonSteps) THEN g
  ELSE LET stepIdentifier == commonSteps[i]
           added == [nodes |-> [x \in DOMAIN g.nodes \cup {stepIdentifier} |->
                                  IF x = stepIdentifier THEN NewNode ELSE g.nodes[x]],
                     roots |-> Append(g.roots, stepIdentifier)]
           ordered == IF i > 1
                      THEN order(added.nodes, added.roots, commonSteps[i - 1], stepIdentifier)
                      ELSE added
       IN  initializeRenderSteps([nodes |-> ordered.nodes, roots |-> ordered.roots], i + 1)

\* updateSortedRenderSteps: the identifiers of the routines, in the order of
\* sortedValues(), of the identifiers that have a routine.
updateSortedRenderSteps(st) ==
  [st EXCEPT !.sortedRenderSteps =
     SelectSeq(sortedValues(st.stepNodes, st.stepRoots),
               LAMBDA identifier : identifier \in st.renderSteps)]

\* One renderStepIdentifiers.order(a, b) of registerRenderStep, for the
\* registration of identifier. reg is the record of the registration:
\* conflicts counts the constraints that would close a cycle (conflicting
\* holds them), errors the error() calls, accepted the constraints order()
\* returned true for.
orderRenderStep(st, identifier, a, b) ==
  LET conflict == a = b \/ (a \in DOMAIN st.stepNodes /\ b \in DOMAIN st.stepNodes
                            /\ Precedes(st.stepNodes, b, a))
      r == order(st.stepNodes, st.stepRoots, a, b)
      noted == [st EXCEPT !.lastReg[1].conflicts = IF conflict THEN @ + 1 ELSE @,
                          !.lastReg[1].conflicting =
                            IF conflict THEN @ \cup {<<a, b>>} ELSE @]
  IN  IF r.result = "throw"
      THEN [noted EXCEPT !.lastReg[1].thrown = TRUE]
      ELSE IF r.result = "false"
      THEN [noted EXCEPT !.lastReg[1].errors = @ + 1]
      ELSE [noted EXCEPT !.stepNodes = r.nodes, !.stepRoots = r.roots,
                         !.lastReg[1].accepted = @ \cup {<<a, b>>}]

\* for (const afterRenderStepIdentifier of after) ...
RECURSIVE orderAfter(_, _, _, _)
orderAfter(st, identifier, after, i) ==
  IF i > Len(after) \/ st.lastReg[1].thrown THEN st
  ELSE orderAfter(orderRenderStep(st, identifier, after[i], identifier),
                  identifier, after, i + 1)

\* for (const beforeRenderStepIdentifier of before) ...
RECURSIVE orderBefore(_, _, _, _)
orderBefore(st, identifier, before, i) ==
  IF i > Len(before) \/ st.lastReg[1].thrown THEN st
  ELSE orderBefore(orderRenderStep(st, identifier, identifier, before[i]),
                   identifier, before, i + 1)

\* registerRenderStep up to the return of the unregister callback. An
\* exception thrown by order() leaves the function before the sorted list is
\* rebuilt.
registerRenderStep(st, identifier, after, before) ==
  LET st1 == [st EXCEPT
                !.renderSteps = @ \cup {identifier},
                !.stepNodes = IF identifier \in DOMAIN @ THEN @
                              ELSE [x \in DOMAIN @ \cup {identifier} |->
                                      IF x = identifier THEN NewNode ELSE @[x]],
                !.stepRoots = IF identifier \in DOMAIN st.stepNodes THEN @
                              ELSE Append(@, identifier),
                !.lastReg = <<[identifier |-> identifier, conflicts |-> 0,
                               conflicting |-> {}, errors |-> 0, thrown |-> FALSE, accepted |-> {},
                               earlier |-> UNION {st.liveSteps[s] : s \in DOMAIN st.liveSteps}]>>]
      st2 == orderAfter(st1, identifier, after, 1)
      st3 == orderBefore(st2, identifier, before, 1)
  IN  IF st3.lastReg[1].thrown THEN st3 ELSE updateSortedRenderSteps(st3)

\* The callback returned by registerRenderStep
unregisterRenderStep(st, identifier) ==
  updateSortedRenderSteps(
    [st EXCEPT !.stepNodes = IF identifier \in DOMAIN @ THEN removeNode(@, identifier) ELSE @,
               !.stepRoots = SetDelete(@, identifier),
               !.renderSteps = @ \ {identifier}])

\* render(): sortedRenderStepsRef.current.forEach((render) => render(options))
RECURSIVE renderEach(_, _)
renderEach(st, i) ==
  IF i > Len(st.sortedRenderSteps) THEN st
  ELSE renderEach([st EXCEPT !.log = Append(@, Event(st.sortedRenderSteps[i], 0))], i + 1)

render(st) ==
  [renderEach([st EXCEPT !.log = Append(@, Event("render", 0))], 1)
     EXCEPT !.log = Append(@, Event("rendered", 0))]

\* ---- actions -----------------------------------------------------------
\* registerLayer / registerRenderer(identifier, after, before, ...). The
\* constraints a later unregistration of another step removes from the graph
\* are removed from the record as well.
RegisterStep(identifier, after, before) ==
  /\ identifier \notin DOMAIN sched.liveSteps
  /\ LET st == registerRenderStep([sched EXCEPT !.log = <<>>], identifier, after, before)
     IN  sched' = IF st.lastReg[1].thrown THEN st
                  ELSE [st EXCEPT !.liveSteps =
                          [s \in DOMAIN @ \cup {identifier} |->
                             IF s = identifier THEN st.lastReg[1].accepted ELSE @[s]]]

\* The callback registerLayer / registerRenderer returned
UnregisterStep(identifier) ==
  /\ identifier \in DOMAIN sched.liveSteps
  /\ LET st == unregisterRenderStep([sched EXCEPT !.log = <<>>, !.lastReg = <<>>], identifier)
     IN  sched' = [st EXCEPT !.liveSteps =
                     [s \in DOMAIN @ \ {identifier} |->
                        {p \in @[s] : p[1] # identifier /\ p[2] # identifier}]]

\* RenderScreen: view.current?.render()
Render == sched' = render([sched EXCEPT !.log = <<>>])

\* The Renderer after construction: empty cell registry, seeded step registry.
NewRenderer ==
  LET seeded == initializeRenderSteps([nodes |-> <<>>, roots |-> <<>>], 1)
  IN  [auxiliary |-> [r \in AuxCells |-> "none"],
       nodes |-> <<>>,
       roots |-> <<>>,
       counters |-> <<>>,
       sortedVolatiles |-> <<"null">>,
       symbolResolutionInProgress |-> FALSE,
       live |-> <<>>,
       declared |-> {},
       log |-> <<>>,
       stepNodes |-> seeded.nodes,
       stepRoots |-> seeded.roots,
       renderSteps |-> {},
       sortedRenderSteps |-> <<>>,
       liveSteps |-> <<>>,
       lastReg |-> <<>>]

StepsInit == PosIdle /\ HandleIdle /\ CellsIdle /\ sched = NewRenderer

StepsNext ==
  \/ \E identifier \in StepIds : \E after \in Constraints, before \in Constraints :
       RegisterStep(identifier, after, before) /\ SchedFrame
  \/ \E identifier \in StepIds : UnregisterStep(identifier) /\ SchedFrame
  \/ Render /\ SchedFrame

SpecSteps == StepsInit /\ [][StepsNext]_vars

\* ---- properties of the render steps ------------------------------------
\* A render() has just run: its log is complete.
Rendered == sched.log # <<>> /\ sched.log[Len(sched.log)].ev = "rendered"

\* The position at which render() ran the step, 0 when it did not run it.
ExecPos(s) ==
  LET at == {i \in DOMAIN sched.log : sched.log[i].ev = s}
  IN  IF at = {} THEN 0 ELSE CHOOSE i \in at : TRUE

KeyIndex(k) == IndexOf(commonSteps, k)

RanInOrder(s, t) == ExecPos(s) > 0 /\ ExecPos(t) > 0 /\ ExecPos(s) < ExecPos(t)

\* The pairs of registered steps (s, t) the constraints of C order: s
\* directly before t, or s before a boundary key and t after that key or a
\* later one.
OrderedBy(C) ==
  {p \in (DOMAIN sched.liveSteps) \X (DOMAIN sched.liveSteps) :
     \/ <<p[1], p[2]>> \in C
     \/ /\ p[1] # p[2]
        /\ \E ki \in StageKeys, kj \in StageKeys :
             /\ <<p[1], ki>> \in C
             /\ <<kj, p[2]>> \in C
             /\ KeyIndex(kj) >= KeyIndex(ki)}

\* The constraints accepted for the registered steps and still in force.
AcceptedConstraints == UNION {sched.liveSteps[s] : s \in DOMAIN sched.liveSteps}

OrderedPairs == OrderedBy(AcceptedConstraints)

\* C17: in every render(), the steps run in an order that satisfies every
\* accepted constraint: a step accepted directly before another runs before
\* it, and a step registered before a boundary key runs before every step
\* registered after that key or after a later boundary key.
C17_StepOrderAnchored ==
  Rendered => \A p \in OrderedPairs : RanInOrder(p[1], p[2])

\* C18: a registration with a constraint that would close a cycle does not
\* throw, reports every such constraint through the error log, accepts none
\* of them, leaves the step registered, and the next render() executes the
\* step and runs the steps in an order that satisfies every constraint
\* accepted before the registration.
C18_CyclicConstraintDropped ==
  (sched.lastReg # <<>> /\ sched.lastReg[1].conflicts > 0) =>
    LET reg == sched.lastReg[1]
    IN  /\ ~reg.thrown
        /\ reg.errors = reg.conflicts
        /\ reg.accepted \cap reg.conflicting = {}
        /\ reg.identifier \in sched.renderSteps
        /\ Rendered =>
             /\ ExecPos(reg.identifier) > 0
             /\ \A p \in OrderedBy(reg.earlier \cap AcceptedConstraints) :
                  RanInOrder(p[1], p[2])

\* The identifiers a registration or a constraint may name.
StepNames == StageKeys \cup StepIds

\* order(a, b) of the step set with a or b absent returns false and leaves the
\* nodes, the roots and the sortedValues() sequence as they are.
AbsentOrderRejected(st) ==
  \A a \in StepNames, b \in StepNames :
    (a \notin DOMAIN st.stepNodes \/ b \notin DOMAIN st.stepNodes) =>
      LET r == order(st.stepNodes, st.stepRoots, a, b)
      IN  /\ r.result = "false"
          /\ r.nodes = st.stepNodes
          /\ r.roots = st.stepRoots
          /\ sortedValues(r.nodes, r.roots) = sortedValues(st.stepNodes, st.stepRoots)

\* The step is a registration: it leaves a record and an empty log.
Registered == sched'.lastReg # <<>> /\ sched'.log = <<>>

\* C39 (steps): order(a, b) of the element-keyed set returns false and
\* changes nothing when a or b is not a member; a registration therefore
\* creates an edge only for a constraint it named and order() accepted,
\* between its step and an identifier that is a member at that moment, so a
\* step registered relative to an absent identifier is not ordered against
\* it, also when that identifier is registered later.
C39_AbsentIdentifierUnordered ==
  [][Registered =>
       /\ AbsentOrderRejected(sched)
       /\ LET identifier == sched'.lastReg[1].identifier
              new == Edges(sched'.stepNodes) \ Edges(sched.stepNodes)
              members == DOMAIN sched.stepNodes \cup {identifier}
          IN  \A e \in new :
                /\ e \in sched'.lastReg[1].accepted
                /\ identifier \in {e[1], e[2]}
                /\ {e[1], e[2]} \subseteq members]_vars

\* A step registered relative to an identifier absent at that moment: order()
\* returned false without a cycle being at stake, and the step is registered.
C39_Witness ==
  /\ sched.lastReg # <<>>
  /\ sched.lastReg[1].errors >= 1
  /\ sched.lastReg[1].conflicting = {}
  /\ ~sched.lastReg[1].thrown
  /\ sched.lastReg[1].identifier \in DOMAIN sched.liveSteps
  /\ StepIds \ DOMAIN sched.stepNodes # {}

\* The positions at which the last render() ran step s.
RunsOf(s) == {n \in DOMAIN sched.log : sched.log[n].ev = s}

\* C37 (steps): render() executes every step that is still registered,
\* exactly once per call, whatever registrations and unregistrations came
\* before.
C37_RegisteredStepsRendered ==
  Rendered => \A s \in DOMAIN sched.liveSteps : Cardinality(RunsOf(s)) = 1

(***************************************************************************)
(* TICK                                                                    *)
(*                                                                         *)
(* One frame of RenderScreen: the frame callback of priority -3 runs the   *)
(* resolution pass, the one of priority 1 runs render(). The Renderer      *)
(* registers its first layer before UserInterfaceStage.start when it       *)
(* mounts.                                                                 *)
(***************************************************************************)
firstLayerIdentifier == "S1"

\* <RegisterLayer clear identifier={firstLayerIdentifier}
\*                before={[UserInterfaceStage.start]} />
RegisterFirstLayer == RegisterStep(firstLayerIdentifier, <<>>, <<commonSteps[1]>>)

Tick ==
  sched' = render(resolveComponentVolatiles([sched EXCEPT !.log = <<>>], 0))

TickNext ==
  \/ \E r \in AuxCells, a \in SchedCells : SetAuxiliary(r, a) /\ SchedFrame
  \/ \E v \in SchedCells : Register(v) /\ SchedFrame
  \/ \E i \in 1..MaxLive : Unregister(i) /\ SchedFrame
  \/ RegisterFirstLayer /\ SchedFrame
  \/ Tick /\ SchedFrame

SpecTick == StepsInit /\ [][TickNext]_vars

\* ---- properties of the tick --------------------------------------------
PulseAt == {i \in DOMAIN sched.log : sched.log[i].ev = "pulse"}

CurrentAt == {i \in DOMAIN sched.log : sched.log[i].ev \in SchedCells}

StepAt == {i \in DOMAIN sched.log : sched.log[i].ev \in StepIds}

\* C19: in every tick, the before-render pulse is set before any cell's
\* current() is called, and every registered cell has been resolved before
\* the first step is executed.
C19_TickPhases ==
  Rendered =>
    /\ PulseAt # {}
    /\ \A p \in PulseAt, i \in CurrentAt : p < i
    /\ \A c \in RegisteredCells :
         \E i \in CurrentAt : sched.log[i].ev = c /\ \A j \in StepAt : i < j

(***************************************************************************)
(* NESTED VIEWS                                                            *)
(*                                                                         *)
(* MiniView components that nest the renderer into itself: each registers  *)
(* a step between SubviewStage.start and SubviewStage.end whose routine    *)
(* calls render() of the same renderer again, with the options record it   *)
(* received extended by its own count in renderedComponents. The variable  *)
(* cells holds, for each MiniView, whether its innerBounds cell yields     *)
(* bounds. The ref `rendered` is an object, so neither `if (rendered)` nor *)
(* `if (!rendered)` ever skips, and its field is not part of the state.    *)
(***************************************************************************)
MAX_RENDERS_PER_COMPONENT == 3

\* renderStepIdentifier of each MiniViewImpl; the same name stands for its id.
MiniViews == StepIds

\* render() calls in progress the stack allows.
MaxRenderDepth == 8

\* renderedComponents of render()'s default options: no entry, read as 0.
noRenderedComponents == [v \in MiniViews |-> 0]

NestEvent(ev, depth, rc) == [ev |-> ev, depth |-> depth, renderedComponents |-> rc]

RECURSIVE renderWith(_, _, _, _)
RECURSIVE renderEachWith(_, _, _, _, _)
\* The routine MiniViewImpl registers, called with options whose
\* renderedComponents is rc.
miniViewRoutine(st, innerBounds, id, rc, depth) ==
  IF ~innerBounds[id] THEN st
  ELSE IF rc[id] >= MAX_RENDERS_PER_COMPONENT THEN st
  ELSE renderWith(st, innerBounds, [rc EXCEPT ![id] = @ + 1], depth + 1)

\* sortedRenderStepsRef.current.forEach((render) => render(options))
renderEachWith(st, innerBounds, rc, depth, i) ==
  IF i > Len(st.sortedRenderSteps) THEN st
  ELSE LET id  == st.sortedRenderSteps[i]
           st1 == [st EXCEPT !.log = Append(@, NestEvent(id, depth, rc))]
       IN  renderEachWith(IF id \in MiniViews
                          THEN miniViewRoutine(st1, innerBounds, id, rc, depth)
                          ELSE st1,
                          innerBounds, rc, depth, i + 1)

\* render(options) at the given depth of nested render() calls.
renderWith(st, innerBounds, rc, depth) ==
  IF depth > MaxRenderDepth
  THEN [st EXCEPT !.log = Append(@, NestEvent("overflow", depth, rc))]
  ELSE [renderEachWith([st EXCEPT !.log = Append(@, NestEvent("render", depth, rc))],
                       innerBounds, rc, depth, 1)
          EXCEPT !.log = Append(@, NestEvent("rendered", depth, rc))]

\* ---- actions -----------------------------------------------------------
\* The effect of MiniViewImpl: registerRenderer(renderStepIdentifier,
\* [SubviewStage.start], [SubviewStage.end], routine)
MountMiniView(v) == RegisterStep(v, <<commonSteps[2]>>, <<commonSteps[3]>>)

\* The effect's cleanup
UnmountMiniView(v) == UnregisterStep(v)

\* A layer of the same renderer: registerLayer(identifier, after, before)
\* with the boundaries of its stage, here UserInterfaceStage.
nestLayer == "L"

MountLayer == RegisterStep(nestLayer, <<commonSteps[1]>>, <<commonSteps[2]>>)

UnmountLayer == UnregisterStep(nestLayer)

\* computedBounds of a MiniView becomes available or unavailable.
SetInnerBounds(v, b) ==
  /\ cells.innerBounds[v] # b
  /\ cells' = [cells EXCEPT !.innerBounds[v] = b]

\* A top-level render()
NestedRender ==
  sched' = renderWith([sched EXCEPT !.log = <<>>], cells.innerBounds,
                      noRenderedComponents, 0)

NestInit ==
  /\ PosIdle /\ HandleIdle /\ sched = NewRenderer
  /\ cells = [innerBounds |-> [v \in MiniViews |-> FALSE]]

NestNext ==
  \/ \E v \in MiniViews : MountMiniView(v) /\ SchedFrame
  \/ \E v \in MiniViews : UnmountMiniView(v) /\ SchedFrame
  \/ MountLayer /\ SchedFrame
  \/ UnmountLayer /\ SchedFrame
  \/ \E v \in MiniViews : \E b \in BOOLEAN : SetInnerBounds(v, b) /\ OtherUnchanged
  \/ NestedRender /\ SchedFrame

SpecNest == NestInit /\ [][NestNext]_vars

\* The nested render() calls of the last top-level render().
NestedRenders == {n \in DOMAIN sched.log : sched.log[n].ev = "render"}

\* The last top-level render() returned.
RenderReturned ==
  /\ sched.log[Len(sched.log)] = NestEvent("rendered", 0, noRenderedComponents)
  /\ \A n \in DOMAIN sched.log : sched.log[n].ev # "overflow"

\* C25 (steps): a top-level render() of a renderer nested into itself through
\* MiniView steps terminates, and along any chain of nested renders each
\* MiniView has invoked the nested render() at most one additional time.
C25_SelfNestingCapped ==
  sched.log # <<>> =>
    /\ RenderReturned
    /\ \A n \in NestedRenders : \A v \in MiniViews :
         sched.log[n].renderedComponents[v] <= 1

(***************************************************************************)
(* TWO INSTANCES                                                           *)
(*                                                                         *)
(* Two ordering graphs, two cell registries or two step registries that    *)
(* receive the same calls. The instances differ in their identity only     *)
(* (field id); sched holds both. The field mode says which of the          *)
(* components the calls go to.                                             *)
(***************************************************************************)
TwinModes == {"PartiallyOrderedSet", "Graph", "cells", "steps"}

NewInstance(i) ==
  [id |-> i, nodes |-> <<>>, roots |-> <<>>, result |-> "none",
   renderer |-> NewRenderer]

\* add(element) / addNode(key) appending to roots whatever the instance is
\* would be replaced by this: a roots set ordered by instance identity.
twinAddByIdentity(inst, k) ==
  IF k \in DOMAIN inst.nodes THEN [inst EXCEPT !.result = "false"]
  ELSE [inst EXCEPT !.nodes = [x \in DOMAIN @ \cup {k} |->
                                 IF x = k THEN NewNode ELSE @[x]],
                    !.roots = IF inst.id = 1 THEN Append(@, k) ELSE <<k>> \o @,
                    !.result = "true"]

\* add(element) / addNode(key) on one instance
twinAdd(inst, k) ==
  IF k \in DOMAIN inst.nodes THEN [inst EXCEPT !.result = "false"]
  ELSE [inst EXCEPT !.nodes = [x \in DOMAIN @ \cup {k} |->
                                 IF x = k THEN NewNode ELSE @[x]],
                    !.roots = Append(@, k),
                    !.result = "true"]

\* delete(element) / removeNode(key) on one instance
twinDelete(inst, k) ==
  IF k \in DOMAIN inst.nodes
  THEN [inst EXCEPT !.nodes = removeNode(@, k), !.roots = SetDelete(@, k),
                    !.result = "true"]
  ELSE [inst EXCEPT !.result = "false"]

\* order(a, b) / addEdge(a, b) on one instance
twinOrder(inst, mode, a, b) ==
  LET r == IF mode = "Graph" THEN addEdge(inst.nodes, inst.roots, a, b)
           ELSE order(inst.nodes, inst.roots, a, b)
  IN  [inst EXCEPT !.nodes = r.nodes, !.roots = r.roots, !.result = r.result]

\* registerComponentVolatile(volatile) up to the return of the callback
registerComponentVolatile(st, v) ==
  LET st1 == registerVolatile([st EXCEPT !.declared = {}], v)
  IN  [st1 EXCEPT !.sortedVolatiles = <<"null">>,
                  !.live = Append(@, [cell |-> v, pairs |-> st1.declared]),
                  !.declared = {},
                  !.log = <<>>]

\* The callback registerComponentVolatile returned for the i-th live
\* registration
unregisterComponentVolatile(st, i) ==
  LET st1 == unregisterVolatile(st, st.live[i].cell)
  IN  [st1 EXCEPT !.live = [j \in 1..(Len(@) - 1) |->
                              IF j < i THEN @[j] ELSE @[j + 1]],
                  !.log = <<>>]

\* The same call on both instances.
Both(f(_)) == sched' = [sched EXCEPT !.one = f(@), !.two = f(@)]

TwinAdd(k) ==
  /\ sched.mode \in {"PartiallyOrderedSet", "Graph"}
  /\ Both(LAMBDA inst : twinAdd(inst, k))

TwinDelete(k) ==
  /\ sched.mode \in {"PartiallyOrderedSet", "Graph"}
  /\ Both(LAMBDA inst : twinDelete(inst, k))

TwinOrder(a, b) ==
  /\ sched.mode \in {"PartiallyOrderedSet", "Graph"}
  /\ Both(LAMBDA inst : twinOrder(inst, sched.mode, a, b))

TwinRegister(v) ==
  /\ sched.mode = "cells"
  /\ Len(sched.one.renderer.live) < MaxLive
  /\ \A x \in DOMAIN sched.one.renderer.counters :
       sched.one.renderer.counters[x] < MaxCounter
  /\ Both(LAMBDA inst : [inst EXCEPT !.renderer = registerComponentVolatile(@, v)])

TwinUnregister(i) ==
  /\ sched.mode = "cells"
  /\ i \in 1..Len(sched.one.renderer.live)
  /\ Both(LAMBDA inst : [inst EXCEPT !.renderer = unregisterComponentVolatile(@, i)])

TwinResolve ==
  /\ sched.mode = "cells"
  /\ Both(LAMBDA inst : [inst EXCEPT !.renderer =
                           resolveComponentVolatiles([@ EXCEPT !.log = <<>>], 0)])

TwinRegisterStep(identifier, after, before) ==
  /\ sched.mode = "steps"
  /\ identifier \notin sched.one.renderer.renderSteps
  /\ Both(LAMBDA inst : [inst EXCEPT !.renderer =
                           registerRenderStep([@ EXCEPT !.log = <<>>],
                                              identifier, after, before)])

TwinUnregisterStep(identifier) ==
  /\ sched.mode = "steps"
  /\ identifier \in sched.one.renderer.renderSteps
  /\ Both(LAMBDA inst : [inst EXCEPT !.renderer =
                           unregisterRenderStep([@ EXCEPT !.log = <<>>, !.lastReg = <<>>],
                                                identifier)])

TwinRender ==
  /\ sched.mode = "steps"
  /\ Both(LAMBDA inst : [inst EXCEPT !.renderer = render([@ EXCEPT !.log = <<>>])])

TwinInit ==
  /\ PosIdle /\ HandleIdle /\ CellsIdle
  /\ \E m \in TwinModes :
       sched = [mode |-> m, one |-> NewInstance(1), two |-> NewInstance(2)]

TwinNext ==
  \/ \E k \in Keys : TwinAdd(k) /\ SchedFrame
  \/ \E k \in Keys : TwinDelete(k) /\ SchedFrame
  \/ \E a \in Keys, b \in Keys : TwinOrder(a, b) /\ SchedFrame
  \/ \E v \in SchedCells : TwinRegister(v) /\ SchedFrame
  \/ \E i \in 1..MaxLive : TwinUnregister(i) /\ SchedFrame
  \/ TwinResolve /\ SchedFrame
  \/ \E identifier \in StepIds : \E after \in Constraints, before \in Constraints :
       TwinRegisterStep(identifier, after, before) /\ SchedFrame
  \/ \E identifier \in StepIds : TwinUnregisterStep(identifier) /\ SchedFrame
  \/ TwinRender /\ SchedFrame

SpecTwin == TwinInit /\ [][TwinNext]_vars

\* What a caller observes of an instance: the result of the last graph call,
\* the sortedValues() sequence, the calls of the last resolution pass and the
\* steps of the last render().
Observed(inst) ==
  [result |-> inst.result,
   sortedValues |-> sortedValues(inst.nodes, inst.roots),
   sortedCells |-> sortedValues(inst.renderer.nodes, inst.renderer.roots),
   sortedSteps |-> inst.renderer.sortedRenderSteps,
   log |-> inst.renderer.log]

Init == PosInit /\ HandleIdle /\ CellsIdle /\ SchedIdle

Next == PosNext

Spec == Init /\ [][Next]_vars

====
